---- MODULE Spec2Model ----
(***************************************************************************)
(* A model of ragstack_knowledge_store.graph_store.GraphStore: the write   *)
(* path (add_nodes), the hydration helper (_nodes_with_ids) and the two    *)
(* graph searches (traversal_search, mmr_traversal_search), all of which   *)
(* run their statements through a concurrent-query scope whose callbacks   *)
(* may schedule further statements.                                        *)
(*                                                                         *)
(* The two tables are functions from primary key to row.  A scope is the   *)
(* bag of statements scheduled and not yet finished; a statement finishes  *)
(* when the backend has applied it and its callback has returned.          *)
(***************************************************************************)
EXTENDS Integers, Sequences, FiniteSets, Bags, TLC

\* ------------------------------------------------------------ bounds

\* Explicit ids a caller may put on a Node handed to add_nodes.
NumIds == 1
\* Texts a Node may carry (each has its own embedding).
NumTexts == 2
\* Tag names; a tag is a (kind, name) pair.
NumTagNames == 1
\* Links on one Node.
MaxLinks == 1
\* Nodes handed to add_nodes over a whole behaviour (all calls together).
MaxWritten == 2
\* Passage rows of a store that is searched.
NumNodes == 3
\* Length of the id list handed to _nodes_with_ids.
MaxIdsLen == 3
\* Links (each in or out) in a store that is searched, all nodes together.
MaxStoreLinks == 4
\* The depth argument of the searches.
MaxDepth == 2
\* The k argument of the searches.
MaxK == 2

\* ------------------------------------------------------------ values

Kinds == {"href", "kw"}
TagNames == 1..NumTagNames
\* A tag (kind, value), as stored in link_to_tags and keyed in the targets table.
TagPairs == Kinds \X TagNames
Directions == {"in", "out", "bidir"}
\* links.Link: (kind, direction, tag).
Links == [kind : Kinds, direction : Directions, tag : TagNames]
LinkSets == {ls \in SUBSET Links : Cardinality(ls) <= MaxLinks}

Texts == 1..NumTexts
\* Node.id is Optional: NoId is the None / empty id.
NoId == 0
Ids == 1..NumIds
\* Ids secrets.token_hex(8) can hand out: disjoint from the explicit ones.
GenIds == (NumIds + 1)..(NumIds + MaxWritten)

\* The embedding model is a pure function of the text; vectors of norm 5.
EmbTable == << <<5, 0>>, <<4, 3>>, <<3, 4>>, <<0, 5>>, <<-3, 4>>, <<-4, 3>> >>
Embed(text) == EmbTable[((text - 1) % Len(EmbTable)) + 1]

\* A Node as the caller builds it.
Nodes == [id : Ids \cup {NoId}, text : Texts, links : LinkSets]

RECURSIVE SeqsUpTo(_, _)
SeqsUpTo(S, n) ==
  IF n = 0 THEN {<<>>}
  ELSE LET shorter == SeqsUpTo(S, n - 1)
       IN  shorter \cup {Append(s, x) : s \in {t \in shorter : Len(t) = n - 1}, x \in S}

Range(s) == {s[i] : i \in DOMAIN s}

\* ------------------------------------------------------------ state

VARIABLES
  passages,      \* node table: content_id -> row
  targets,       \* targets table: <<kind, tag, target_content_id>> -> embedding
  cq_pending,    \* the scope: bag of statements scheduled and not finished
  cq_error,      \* first error captured by the scope
  cq_issued,     \* every statement the scope was ever asked to execute (bag)
  pc,            \* where the calling thread is
  idx,           \* position of the calling thread's loop
  result,        \* what the operation returned or raised
  nodes,         \* add_nodes: the nodes handed in
  node_ids,      \* add_nodes: the materialised ids
  written,       \* nodes handed to add_nodes so far
  ids,           \* _nodes_with_ids: the ids asked for
  results,       \* _nodes_with_ids: id -> <<>> (being fetched) or <<Node>>
  query,         \* the searches: the query text
  k,             \* the searches: k
  depth,         \* the searches: depth
  visited_ids,   \* traversal_search: visited id -> depth
  visited_keys,  \* traversal_search: the keys of visited_ids in insertion order
  visited_tags,  \* the searches: the tags already traversed
  fetch_k,       \* mmr_traversal_search: fetch_k
  adjacent_k,    \* mmr_traversal_search: adjacent_k
  lambda_mult,   \* mmr_traversal_search: lambda_mult, in units of 1 / LamDen
  score_threshold, \* mmr_traversal_search: score_threshold
  helper,        \* mmr_traversal_search: the MmrHelper
  depths,        \* mmr_traversal_search: candidate id -> depth
  selected_id,   \* mmr_traversal_search: the id popped in this turn of the loop
  adj_targets,   \* _get_adjacent: targets, (id, embedding) in insertion order
  fetched,       \* the ids the initial vector search returned
  expanded,      \* the (id, depth, turn) _get_adjacent has been called for
  cq_callbacks,  \* the scope: bag of callbacks that are running
  cq_errors,     \* every error raised in the scope, in the order raised
  prev_call,     \* add_nodes: the batch and the tables of the last successful call
  first_run,     \* the searches: what the first of two runs returned
  ann_memo,      \* the rows the backend answered each vector search with
  setup_mode,    \* __init__: the setup mode the store is constructed with
  schema         \* __init__: the schema statements executed

storeVars == <<passages, targets>>
cqVars == <<cq_pending, cq_error, cq_issued>>
addVars == <<nodes, node_ids, written>>
nwiVars == <<ids, results>>
searchVars == <<query, k, depth, visited_ids, visited_keys, visited_tags>>
mmrVars == <<fetch_k, adjacent_k, lambda_mult, score_threshold, helper, depths,
             selected_id, adj_targets, fetched, expanded>>
auxVars == <<cq_callbacks, cq_errors, prev_call, first_run, ann_memo, setup_mode,
             schema>>
vars == <<passages, targets, cq_pending, cq_error, cq_issued, pc, idx, result,
          nodes, node_ids, written, ids, results, query, k, depth, visited_ids,
          visited_keys, visited_tags, fetch_k, adjacent_k, lambda_mult,
          score_threshold, helper, depths, selected_id, adj_targets, fetched,
          expanded, cq_callbacks, cq_errors, prev_call, first_run, ann_memo,
          setup_mode, schema>>

NoError == "none"

\* The variables of mmr_traversal_search while it is not running.
MmrIdle ==
  /\ fetch_k = 1
  /\ adjacent_k = 1
  /\ lambda_mult = 1
  /\ score_threshold = 0
  /\ helper = [k |-> 0]
  /\ depths = [x \in {} |-> 0]
  /\ selected_id = 0
  /\ adj_targets = <<>>
  /\ fetched = {}
  /\ expanded = {}

NoResult == [kind |-> "none"]

\* Lines 43-48: the members of SetupMode.
SetupModes == {"SYNC", "ASYNC", "OFF"}

\* Lines 111-112: the modes the docstring of GraphStore lists.
DocstringModes == {"SYNC", "ASYNC", "OFF"}

\* Lines 233-287: what _apply_schema executes, two tables and two indexes.
ApplySchema ==
  {"create node table", "create targets table", "create text_embedding index",
   "create target_text_embedding index"}

\* The variables that only some operations use, while those are not running;
\* the store has been constructed with the default setup mode.
AuxIdle ==
  /\ setup_mode = "SYNC"
  /\ schema = ApplySchema
  /\ cq_callbacks = <<>>
  /\ cq_errors = <<>>
  /\ prev_call = NoResult
  /\ first_run = NoResult
  /\ ann_memo = [x \in {} |-> 0]

\* ------------------------------------------------------------ tables

\* INSERT is an upsert on the primary key.
Upsert(table, key, row) ==
  [x \in (DOMAIN table) \cup {key} |-> IF x = key THEN row ELSE table[x]]

EmptyTable == [x \in {} |-> 0]

\* ------------------------------------------------------------ scope

NoTag == <<"", 0>>

\* One scheduled statement: the prepared query, its parameters and its callback.
Stmt(q, id, tag, text, emb, ltt, links, cb, d) ==
  [q |-> q, id |-> id, tag |-> tag, text |-> text, emb |-> emb, ltt |-> ltt,
   links |-> links, cb |-> cb, d |-> d]

\* cq.execute: schedule the statements; a poisoned scope schedules nothing.
Execute(pending, error, stmts) ==
  IF error = NoError THEN pending (+) stmts ELSE pending

\* Scope exit blocks until nothing scheduled is unfinished.
Quiescent == cq_pending = EmptyBag

\* ------------------------------------------------------------ add_nodes

\* The out projection taking every link, whatever its direction.
LinkToTagsAnyDirection(links) == {<<l.kind, l.tag>> : l \in links}

\* Lines 316-325: the tags this node links to.
LinkToTags(links) ==
  {<<l.kind, l.tag>> : l \in {m \in links : m.direction \in {"out", "bidir"}}}

\* The in projection taking every link that is not an out link.
LinkFromTagsUnlessOut(links) ==
  {<<l.kind, l.tag>> : l \in {m \in links : m.direction # "out"}}

\* Lines 316-325: the tags this node is linked from.
LinkFromTags(links) ==
  {<<l.kind, l.tag>> : l \in {m \in links : m.direction \in {"in", "bidir"}}}

\* _serialize_links / _deserialize_links: a JSON list of the link triples, read
\* back into a set.
SerializeLinks(links) == links

InsertPassage(node_id, text, emb, ltt, links) ==
  Stmt("insert_passage", node_id, NoTag, text, emb, ltt, SerializeLinks(links),
       "none", 0)

InsertTag(node_id, tag, emb) ==
  Stmt("insert_tag", node_id, tag, 0, emb, {}, {}, "none", 0)

\* Lines 302-306 giving every node a generated id, its own id or not.
RECURSIVE MaterializeIdsAllGenerated(_, _)
MaterializeIdsAllGenerated(ns, used) ==
  IF ns = <<>> THEN <<>>
  ELSE LET id == CHOOSE g \in GenIds \ used : \A h \in GenIds \ used : g <= h
       IN  <<id>> \o MaterializeIdsAllGenerated(Tail(ns), used \cup {id})

\* Lines 302-309: a node without id gets a generated one, distinct from every id
\* in use (token_hex(8) is taken as collision free).
RECURSIVE MaterializeIds(_, _)
MaterializeIds(ns, used) ==
  IF ns = <<>> THEN <<>>
  ELSE LET n == Head(ns)
           id == IF n.id = NoId
                 THEN CHOOSE g \in GenIds \ used : \A h \in GenIds \ used : g <= h
                 ELSE n.id
       IN  <<id>> \o MaterializeIds(Tail(ns), used \cup {id})

\* Lines 329-345 writing under the id the node was handed in with, generated
\* ids being ignored.
NodeStatementsUnderOwnId(node_id, node) ==
  LET emb == Embed(node.text)
  IN  SetToBag({InsertPassage(node.id, node.text, emb, LinkToTags(node.links),
                              node.links)})
      (+) SetToBag({InsertTag(node.id, t, emb) : t \in LinkFromTags(node.links)})

\* The statements lines 329-345 schedule for one node.
NodeStatements(node_id, node) ==
  LET emb == Embed(node.text)
  IN  SetToBag({InsertPassage(node_id, node.text, emb, LinkToTags(node.links),
                              node.links)})
      (+) SetToBag({InsertTag(node_id, t, emb) : t \in LinkFromTags(node.links)})

\* add_nodes is called with a batch: ids, texts and links are materialised and
\* the texts embedded (lines 298-311), and the scope is entered.
AddNodesCall(batch) ==
  /\ pc \in {"idle", "returned", "raised"}
  /\ written + Len(batch) <= MaxWritten
  /\ nodes' = batch
  /\ node_ids' = MaterializeIds(batch, DOMAIN passages)
  /\ written' = written + Len(batch)
  /\ idx' = 1
  /\ pc' = "add_loop"
  /\ cq_pending' = EmptyBag
  /\ cq_error' = NoError
  /\ cq_issued' = EmptyBag
  /\ result' = NoResult
  /\ UNCHANGED <<storeVars, nwiVars, searchVars, mmrVars, auxVars>>

\* One turn of the loop of line 315: the passage insert and one target insert
\* per link_from tag.
AddNodesStep ==
  /\ pc = "add_loop"
  /\ idx <= Len(nodes)
  /\ LET stmts == NodeStatements(node_ids[idx], nodes[idx])
     IN  /\ cq_pending' = Execute(cq_pending, cq_error, stmts)
         /\ cq_issued' = cq_issued (+) stmts
  /\ idx' = idx + 1
  /\ UNCHANGED <<storeVars, cq_error, pc, result, addVars, nwiVars, searchVars, mmrVars,
                 auxVars>>

\* The backend applies a passage insert.
InsertPassageDone(s) ==
  /\ BagIn(s, cq_pending)
  /\ s.q = "insert_passage"
  /\ passages' = Upsert(passages, s.id,
                        [text_content |-> s.text, text_embedding |-> s.emb,
                         link_to_tags |-> s.ltt, links_blob |-> s.links])
  /\ cq_pending' = cq_pending (-) SetToBag({s})
  /\ UNCHANGED <<targets, cq_error, cq_issued, pc, idx, result, addVars, nwiVars,
                 searchVars, mmrVars, auxVars>>

\* The backend applies a target insert.
InsertTagDone(s) ==
  /\ BagIn(s, cq_pending)
  /\ s.q = "insert_tag"
  /\ targets' = Upsert(targets, <<s.tag[1], s.tag[2], s.id>>, s.emb)
  /\ cq_pending' = cq_pending (-) SetToBag({s})
  /\ UNCHANGED <<passages, cq_error, cq_issued, pc, idx, result, addVars, nwiVars,
                 searchVars, mmrVars, auxVars>>

\* The backend fails a statement: the scope captures the first error.
StatementFails(s) ==
  /\ BagIn(s, cq_pending)
  /\ cq_error = NoError
  /\ cq_error' = "backend"
  /\ cq_pending' = cq_pending (-) SetToBag({s})
  /\ UNCHANGED <<storeVars, cq_issued, pc, idx, result, addVars, nwiVars, searchVars,
                 mmrVars, auxVars>>

\* What is remembered of the successful calls: the batch of the last one, how
\* many times in a row it was handed in, and the tables as the first of these
\* calls left them.
Repeated(prev, batch) ==
  IF prev.kind = "call" /\ prev.batch = batch
  THEN [prev EXCEPT !.times = @ + 1]
  ELSE [kind |-> "call", batch |-> batch, times |-> 1, passages |-> passages,
        targets |-> targets]

\* Line 347: the scope is left once it is quiescent; it re-raises a captured
\* error, otherwise add_nodes returns the ids.
AddNodesReturn ==
  /\ pc = "add_loop"
  /\ idx > Len(nodes)
  /\ Quiescent
  /\ IF cq_error = NoError
     THEN /\ pc' = "returned"
          /\ result' = [kind |-> "ids", ids |-> node_ids]
          /\ prev_call' = Repeated(prev_call, nodes)
     ELSE /\ pc' = "raised"
          /\ result' = [kind |-> "error", error |-> cq_error]
          /\ prev_call' = NoResult
  /\ UNCHANGED <<storeVars, cqVars, idx, addVars, nwiVars, searchVars, mmrVars,
                 cq_callbacks, cq_errors, first_run, ann_memo,
                 setup_mode, schema>>

Batches == SeqsUpTo(Nodes, MaxWritten) \ {<<>>}

\* ------------------------------------------------------------ __init__

\* A construction that takes ASYNC, which the docstring lists, as it takes OFF.
IsOffOrAsync(mode) == mode \in {"OFF", "ASYNC"}

\* Line 141: the mode for which nothing is applied and nothing is raised.
IsOff(mode) == mode = "OFF"

\* Lines 139-145 and 147-231: SYNC applies the schema, OFF applies nothing, any
\* other mode raises ValueError; the statements are then prepared and the store
\* is ready for its operations.
GraphStoreInit ==
  /\ pc = "constructing"
  /\ IF setup_mode = "SYNC"
     THEN /\ schema' = ApplySchema
          /\ pc' = "idle"
          /\ result' = result
     ELSE IF ~IsOff(setup_mode)
     THEN /\ pc' = "construct_raised"
          /\ result' = [kind |-> "error", error |-> "ValueError"]
          /\ schema' = schema
     ELSE /\ pc' = "idle"
          /\ result' = result
          /\ schema' = schema
  /\ UNCHANGED <<storeVars, cqVars, idx, addVars, nwiVars, searchVars, mmrVars,
                 cq_callbacks, cq_errors, prev_call, first_run, ann_memo,
                 setup_mode>>

InitAdd ==
  /\ passages = EmptyTable
  /\ targets = EmptyTable
  /\ cq_pending = EmptyBag
  /\ cq_error = NoError
  /\ cq_issued = EmptyBag
  /\ pc = "idle"
  /\ nodes = <<>>
  /\ node_ids = <<>>
  /\ idx = 1
  /\ written = 0
  /\ result = NoResult
  /\ ids = <<>>
  /\ results = EmptyTable
  /\ query = 1
  /\ k = 1
  /\ depth = 0
  /\ visited_ids = EmptyTable
  /\ visited_keys = <<>>
  /\ visited_tags = EmptyTable
  /\ MmrIdle
  /\ AuxIdle

NextAdd ==
  \/ \E batch \in Batches : AddNodesCall(batch)
  \/ AddNodesStep
  \/ \E s \in DOMAIN cq_pending : InsertPassageDone(s)
  \/ \E s \in DOMAIN cq_pending : InsertTagDone(s)
  \/ \E s \in DOMAIN cq_pending : StatementFails(s)
  \/ AddNodesReturn

SpecAdd == InitAdd /\ [][NextAdd]_vars

\* ------------------------------------------------ add_nodes, links of any direction

MaxAnyLinks == 2

\* A direction that is none of in, out, bidir.
Unrecognized == "sideways"

AnyDirectionLinks ==
  [kind : Kinds, direction : Directions \cup {Unrecognized}, tag : TagNames]

\* Nodes with up to MaxAnyLinks links of any direction.
AnyDirectionNodes ==
  [id : Ids \cup {NoId}, text : {1},
   links : {ls \in SUBSET AnyDirectionLinks : Cardinality(ls) <= MaxAnyLinks}]

\* add_nodes is called with one such node at a time.
NextAddAnyDirection ==
  \/ \E n \in AnyDirectionNodes : AddNodesCall(<<n>>)
  \/ AddNodesStep
  \/ \E s \in DOMAIN cq_pending : InsertPassageDone(s)
  \/ \E s \in DOMAIN cq_pending : InsertTagDone(s)
  \/ \E s \in DOMAIN cq_pending : StatementFails(s)
  \/ AddNodesReturn

SpecAddAnyDirection == InitAdd /\ [][NextAddAnyDirection]_vars

\* A store is constructed with some setup mode and then written to.
InitConstruct ==
  /\ passages = EmptyTable
  /\ targets = EmptyTable
  /\ cq_pending = EmptyBag
  /\ cq_error = NoError
  /\ cq_issued = EmptyBag
  /\ pc = "constructing"
  /\ nodes = <<>>
  /\ node_ids = <<>>
  /\ idx = 1
  /\ written = 0
  /\ result = NoResult
  /\ ids = <<>>
  /\ results = EmptyTable
  /\ query = 1
  /\ k = 1
  /\ depth = 0
  /\ visited_ids = EmptyTable
  /\ visited_keys = <<>>
  /\ visited_tags = EmptyTable
  /\ MmrIdle
  /\ cq_callbacks = <<>>
  /\ cq_errors = <<>>
  /\ prev_call = NoResult
  /\ first_run = NoResult
  /\ ann_memo = [x \in {} |-> 0]
  /\ setup_mode \in SetupModes
  /\ schema = {}

NextConstruct ==
  \/ GraphStoreInit
  \/ \E batch \in Batches : AddNodesCall(batch)
  \/ AddNodesStep
  \/ \E s \in DOMAIN cq_pending : InsertPassageDone(s)
  \/ \E s \in DOMAIN cq_pending : InsertTagDone(s)
  \/ \E s \in DOMAIN cq_pending : StatementFails(s)
  \/ AddNodesReturn

SpecConstruct == InitConstruct /\ [][NextConstruct]_vars

\* ------------------------------------------------------------ stores that are searched

\* The node table a successful add_nodes leaves for nodes of distinct ids.
PassagesOf(ns) ==
  [id \in {n.id : n \in ns} |->
     LET n == CHOOSE m \in ns : m.id = id
     IN  [text_content |-> n.text, text_embedding |-> Embed(n.text),
          link_to_tags |-> LinkToTags(n.links),
          links_blob |-> SerializeLinks(n.links)]]

\* The targets table a successful add_nodes leaves for nodes of distinct ids.
TargetsOf(ns) ==
  [key \in UNION {{<<t[1], t[2], n.id>> : t \in LinkFromTags(n.links)} : n \in ns} |->
     LET n == CHOOSE m \in ns : m.id = key[3]
     IN  Embed(n.text)]

NodeIds == 1..NumNodes

\* ------------------------------------------------------------ _nodes_with_ids

DeserializeLinks(blob) == blob

\* _row_to_node: the Node a passage row decodes to.
RowToNode(content_id, row) ==
  [id |-> content_id, text |-> row.text_content,
   links |-> DeserializeLinks(row.links_blob)]

QueryById(node_id) ==
  Stmt("query_by_id", node_id, NoTag, 0, <<>>, {}, {}, "add_nodes", 0)

\* The loop fetching every element of ids, marked or not.
NeedsFetchAlways(node_id, res) == TRUE

\* Line 365: an id is fetched unless it is already marked or fetched.
NeedsFetch(node_id, res) == node_id \notin DOMAIN res

\* One turn of the loop of lines 364-370 (results starts empty, line 353).
NodesWithIdsStep ==
  /\ pc = "nwi_loop"
  /\ idx <= Len(ids)
  /\ IF NeedsFetch(ids[idx], results)
     THEN /\ results' = Upsert(results, ids[idx], <<>>)
          /\ cq_pending' = Execute(cq_pending, cq_error,
                                   SetToBag({QueryById(ids[idx])}))
          /\ cq_issued' = cq_issued (+) SetToBag({QueryById(ids[idx])})
     ELSE UNCHANGED <<results, cq_pending, cq_issued>>
  /\ idx' = idx + 1
  /\ UNCHANGED <<storeVars, cq_error, pc, result, addVars, ids, searchVars, mmrVars,
                 auxVars>>

\* The rows of a primary-key lookup on the node table.
RowsById(node_id) ==
  IF node_id \in DOMAIN passages THEN <<node_id>> ELSE <<>>

\* Lines 356-362, the callback add_nodes: every row is decoded and stored under
\* its content_id.
RECURSIVE AddNodesCallback(_, _)
AddNodesCallback(res, rows) ==
  IF rows = <<>> THEN res
  ELSE AddNodesCallback(
         Upsert(res, Head(rows), <<RowToNode(Head(rows), passages[Head(rows)])>>),
         Tail(rows))

\* A primary-key lookup completes and its callback runs.
QueryByIdDone(s) ==
  /\ BagIn(s, cq_pending)
  /\ s.q = "query_by_id"
  /\ results' = AddNodesCallback(results, RowsById(s.id))
  /\ cq_pending' = cq_pending (-) SetToBag({s})
  /\ UNCHANGED <<storeVars, cq_error, cq_issued, pc, idx, result, addVars, ids,
                 searchVars, mmrVars, auxVars>>

\* A result list that leaves out the ids without result instead of raising.
RECURSIVE GetResultsSkipMissing(_, _)
GetResultsSkipMissing(the_ids, res) ==
  IF the_ids = <<>> THEN [kind |-> "nodes", nodes |-> <<>>]
  ELSE LET rest == GetResultsSkipMissing(Tail(the_ids), res)
       IN  IF res[Head(the_ids)] = <<>> THEN rest
           ELSE [kind |-> "nodes",
                 nodes |-> <<res[Head(the_ids)][1]>> \o rest.nodes]

\* Lines 372-377: the list comprehension over get_result, which raises at the
\* first id whose result is still None.
RECURSIVE GetResults(_, _)
GetResults(the_ids, res) ==
  IF the_ids = <<>> THEN [kind |-> "nodes", nodes |-> <<>>]
  ELSE IF res[Head(the_ids)] = <<>>
       THEN [kind |-> "error", error |-> "No node with ID", id |-> Head(the_ids)]
       ELSE LET rest == GetResults(Tail(the_ids), res)
            IN  IF rest.kind = "error" THEN rest
                ELSE [kind |-> "nodes",
                      nodes |-> <<res[Head(the_ids)][1]>> \o rest.nodes]

\* The scope is left once quiescent (line 370) and the result list is built.
NodesWithIdsReturn ==
  /\ pc = "nwi_loop"
  /\ idx > Len(ids)
  /\ Quiescent
  /\ pc' = "nwi_done"
  /\ result' = GetResults(ids, results)
  /\ UNCHANGED <<storeVars, cqVars, idx, addVars, nwiVars, searchVars, mmrVars, auxVars>>

\* Stores _nodes_with_ids is run against: any subset of the ids has a row.
NwiStoreNodes == {[id |-> i, text |-> ((i - 1) % NumTexts) + 1, links |-> {}] : i \in NodeIds}

InitNwi ==
  /\ \E ns \in SUBSET NwiStoreNodes :
       /\ passages = PassagesOf(ns)
       /\ targets = TargetsOf(ns)
  /\ cq_pending = EmptyBag
  /\ cq_error = NoError
  /\ cq_issued = EmptyBag
  /\ pc = "nwi_loop"
  /\ idx = 1
  /\ result = NoResult
  /\ nodes = <<>>
  /\ node_ids = <<>>
  /\ written = 0
  /\ ids \in SeqsUpTo(NodeIds, MaxIdsLen)
  /\ results = EmptyTable
  /\ query = 1
  /\ k = 1
  /\ depth = 0
  /\ visited_ids = EmptyTable
  /\ visited_keys = <<>>
  /\ visited_tags = EmptyTable
  /\ MmrIdle
  /\ AuxIdle

NextNwi ==
  \/ NodesWithIdsStep
  \/ \E s \in DOMAIN cq_pending : QueryByIdDone(s)
  \/ NodesWithIdsReturn

SpecNwi == InitNwi /\ [][NextNwi]_vars

\* What _nodes_with_ids returns for the ids: the scope leaves in results the
\* decoded row of every id that has one, and None for the others.
NodesWithIds(the_ids) ==
  GetResults(the_ids,
             [id \in Range(the_ids) |->
                IF id \in DOMAIN passages
                THEN <<RowToNode(id, passages[id])>> ELSE <<>>])

\* ------------------------------------------------------------ vector search

Dot(u, v) == u[1] * v[1] + u[2] * v[2]

\* Injective sequences of length n over S.
RECURSIVE Arrangements(_, _)
Arrangements(S, n) ==
  IF n = 0 THEN {<<>>}
  ELSE UNION {{<<x>> \o t : t \in Arrangements(S \ {x}, n - 1)} : x \in S}

Min(a, b) == IF a <= b THEN a ELSE b

\* ORDER BY embedding ANN OF q LIMIT n over rows (id -> embedding): the n rows
\* most similar to q, most similar first; rows of equal similarity in any order.
AnnResults(embs, q, n) ==
  {r \in Arrangements(DOMAIN embs, Min(n, Cardinality(DOMAIN embs))) :
     /\ \A i, j \in DOMAIN r : i < j => Dot(embs[r[i]], q) >= Dot(embs[r[j]], q)
     /\ \A x \in (DOMAIN embs) \ Range(r) :
          \A i \in DOMAIN r : Dot(embs[r[i]], q) >= Dot(embs[x], q)}

\* The store and the query being the same, the backend answers a vector search
\* it has answered before with the same rows: the search of the node table is
\* remembered under NoTag, the search of the targets of a tag under the tag.
AnnAnswers(key, embs, q, n) ==
  IF key \in DOMAIN ann_memo THEN {ann_memo[key]} ELSE AnnResults(embs, q, n)

PassageEmbeddings == [id \in DOMAIN passages |-> passages[id].text_embedding]

\* embed_query: the embedding model applied to the query text.
EmbedQuery(text) == Embed(text)

\* ------------------------------------------------------------ traversal_search

\* dict.get(key, default)
Get(f, key, default) == IF key \in DOMAIN f THEN f[key] ELSE default

AnnIdsAndLinkToTags ==
  Stmt("query_ids_and_link_to_tags_by_embedding", NoId, NoTag, 0,
       EmbedQuery(query), {}, {}, "visit_nodes", 0)

TargetsByKindAndValue(tag, d) ==
  Stmt("query_targets_by_kind_and_value", NoId, tag, 0, <<>>, {}, {},
       "visit_targets", d)

IdsAndLinkToTagsById(node_id, d) ==
  Stmt("query_ids_and_link_to_tags_by_id", node_id, NoTag, 0, <<>>, {}, {},
       "visit_nodes", d)

\* visit_nodes without the depth limit on continuing from a node.
RECURSIVE VisitNodesLoopNoDepthLimit(_, _, _)
VisitNodesLoopNoDepthLimit(d, rows, st) ==
  IF rows = <<>> THEN st
  ELSE LET content_id == Head(rows)
           link_to_tags == passages[content_id].link_to_tags
           closer == d <= Get(st.visited_ids, content_id, depth)
           new_tags == IF closer
                       THEN {t \in link_to_tags : d <= Get(st.visited_tags, t, depth)}
                       ELSE {}
       IN  VisitNodesLoopNoDepthLimit(d, Tail(rows),
             IF closer
             THEN [visited_ids |-> Upsert(st.visited_ids, content_id, d),
                   visited_keys |-> IF content_id \in DOMAIN st.visited_ids
                                    THEN st.visited_keys
                                    ELSE Append(st.visited_keys, content_id),
                   visited_tags |-> [t \in (DOMAIN st.visited_tags) \cup new_tags |->
                                       IF t \in new_tags THEN d ELSE st.visited_tags[t]],
                   outgoing_tags |-> st.outgoing_tags \cup new_tags]
             ELSE st)

\* visit_nodes recording the depth of every row, whatever depth is recorded.
RECURSIVE VisitNodesLoopAlwaysRecord(_, _, _)
VisitNodesLoopAlwaysRecord(d, rows, st) ==
  IF rows = <<>> THEN st
  ELSE LET content_id == Head(rows)
           link_to_tags == passages[content_id].link_to_tags
           new_tags == IF d < depth
                       THEN {t \in link_to_tags : d <= Get(st.visited_tags, t, depth)}
                       ELSE {}
       IN  VisitNodesLoopAlwaysRecord(d, Tail(rows),
             [visited_ids |-> Upsert(st.visited_ids, content_id, d),
              visited_keys |-> IF content_id \in DOMAIN st.visited_ids
                               THEN st.visited_keys
                               ELSE Append(st.visited_keys, content_id),
              visited_tags |-> [t \in (DOMAIN st.visited_tags) \cup new_tags |->
                                  IF t \in new_tags THEN d ELSE st.visited_tags[t]],
              outgoing_tags |-> st.outgoing_tags \cup new_tags])

\* Lines 523-540: the loop of visit_nodes over the rows, each a content_id with
\* its link_to_tags.  st holds visited_ids, its key order, visited_tags and the
\* outgoing_tags collected so far.
RECURSIVE VisitNodesLoop(_, _, _)
VisitNodesLoop(d, rows, st) ==
  IF rows = <<>> THEN st
  ELSE LET content_id == Head(rows)
           link_to_tags == passages[content_id].link_to_tags
           closer == d <= Get(st.visited_ids, content_id, depth)
           new_tags == IF closer /\ d < depth
                       THEN {t \in link_to_tags : d <= Get(st.visited_tags, t, depth)}
                       ELSE {}
       IN  VisitNodesLoop(d, Tail(rows),
             IF closer
             THEN [visited_ids |-> Upsert(st.visited_ids, content_id, d),
                   visited_keys |-> IF content_id \in DOMAIN st.visited_ids
                                    THEN st.visited_keys
                                    ELSE Append(st.visited_keys, content_id),
                   visited_tags |-> [t \in (DOMAIN st.visited_tags) \cup new_tags |->
                                       IF t \in new_tags THEN d ELSE st.visited_tags[t]],
                   outgoing_tags |-> st.outgoing_tags \cup new_tags]
             ELSE st)

\* Lines 512-553, visit_nodes(d, nodes): the state it leaves and the statements
\* it schedules, one targets query per outgoing tag.
VisitNodes(d, rows) ==
  LET st == VisitNodesLoop(d, rows,
              [visited_ids |-> visited_ids, visited_keys |-> visited_keys,
               visited_tags |-> visited_tags, outgoing_tags |-> {}])
  IN  [visited_ids |-> st.visited_ids, visited_keys |-> st.visited_keys,
       visited_tags |-> st.visited_tags,
       stmts |-> SetToBag({TargetsByKindAndValue(t, d) : t \in st.outgoing_tags})]

\* visit_targets that revisits targets already seen at depth d and visits them
\* at depth d again.
VisitTargetsSameDepth(d, target_ids) ==
  LET new_nodes_at_next_depth ==
        {content_id \in target_ids : d <= Get(visited_ids, content_id, depth)}
  IN  SetToBag({IdsAndLinkToTagsById(node_id, d) :
                  node_id \in new_nodes_at_next_depth})

\* visit_targets that looks up only the targets whose recorded depth is above
\* the depth they would be visited at.
VisitTargetsOnlyCloser(d, target_ids) ==
  LET new_nodes_at_next_depth ==
        {content_id \in target_ids : d + 1 < Get(visited_ids, content_id, depth)}
  IN  SetToBag({IdsAndLinkToTagsById(node_id, d + 1) :
                  node_id \in new_nodes_at_next_depth})

\* Lines 555-571, visit_targets(d, targets): one lookup per target id that is
\* not yet visited at depth d or closer, to be visited at depth d + 1.
VisitTargets(d, target_ids) ==
  LET new_nodes_at_next_depth ==
        {content_id \in target_ids : d < Get(visited_ids, content_id, depth)}
  IN  SetToBag({IdsAndLinkToTagsById(node_id, d + 1) :
                  node_id \in new_nodes_at_next_depth})

\* The rows of the targets table for a tag.
TargetIdsOf(tag) ==
  {key[3] : key \in {x \in DOMAIN targets : x[1] = tag[1] /\ x[2] = tag[2]}}

\* The callback visit_nodes runs on rows at depth d for statement s.
RunVisitNodes(s, d, rows) ==
  LET v == VisitNodes(d, rows)
  IN  /\ visited_ids' = v.visited_ids
      /\ visited_keys' = v.visited_keys
      /\ visited_tags' = v.visited_tags
      /\ cq_pending' = Execute(cq_pending (-) SetToBag({s}), cq_error, v.stmts)
      /\ cq_issued' = cq_issued (+) v.stmts

\* Lines 573-578: the seed query is scheduled; the calling thread then waits at
\* the end of the scope.
TraversalStart ==
  /\ pc = "trav_start"
  /\ cq_pending' = Execute(cq_pending, cq_error, SetToBag({AnnIdsAndLinkToTags}))
  /\ cq_issued' = cq_issued (+) SetToBag({AnnIdsAndLinkToTags})
  /\ pc' = "trav_scope"
  /\ UNCHANGED <<storeVars, cq_error, idx, result, addVars, nwiVars, searchVars, mmrVars,
                 auxVars>>

\* The seed query completes: visit_nodes(0, rows).
AnnQueryDone(s) ==
  /\ BagIn(s, cq_pending)
  /\ s.q = "query_ids_and_link_to_tags_by_embedding"
  /\ \E rows \in AnnResults(PassageEmbeddings, s.emb, k) : RunVisitNodes(s, 0, rows)
  /\ UNCHANGED <<storeVars, cq_error, pc, idx, result, addVars, nwiVars, query, k,
                 depth, mmrVars, auxVars>>

\* A targets query completes: visit_targets(d, rows).
TargetsQueryDone(s) ==
  /\ BagIn(s, cq_pending)
  /\ s.q = "query_targets_by_kind_and_value"
  /\ LET stmts == VisitTargets(s.d, TargetIdsOf(s.tag))
     IN  /\ cq_pending' = Execute(cq_pending (-) SetToBag({s}), cq_error, stmts)
         /\ cq_issued' = cq_issued (+) stmts
  /\ UNCHANGED <<storeVars, cq_error, pc, idx, result, addVars, nwiVars, searchVars,
                 mmrVars, auxVars>>

\* A lookup of one id completes: visit_nodes(d + 1, rows).
IdQueryDone(s) ==
  /\ BagIn(s, cq_pending)
  /\ s.q = "query_ids_and_link_to_tags_by_id"
  /\ RunVisitNodes(s, s.d, RowsById(s.id))
  /\ UNCHANGED <<storeVars, cq_error, pc, idx, result, addVars, nwiVars, query, k,
                 depth, mmrVars, auxVars>>

\* traversal_search hydrating the visited ids inside the scope, while
\* statements may still be unfinished.
TraversalReturnInsideScope ==
  /\ pc = "trav_scope"
  /\ result' = NodesWithIds(visited_keys)
  /\ pc' = "trav_done"
  /\ UNCHANGED <<storeVars, cqVars, idx, addVars, nwiVars, searchVars, mmrVars, auxVars>>

\* Lines 504 and 580: the scope is left once quiescent, and only then are the
\* visited ids hydrated.
TraversalReturn ==
  /\ pc = "trav_scope"
  /\ Quiescent
  /\ result' = NodesWithIds(visited_keys)
  /\ pc' = "trav_done"
  /\ UNCHANGED <<storeVars, cqVars, idx, addVars, nwiVars, searchVars, mmrVars, auxVars>>

\* The stores that are searched: every node has a passage row, and the nodes
\* carry at most MaxStoreLinks in and out links between them (a bidir link
\* writes what an in and an out link on the same tag write).
StoreLinkChoices ==
  {F \in SUBSET (NodeIds \X TagPairs \X {"in", "out"}) :
     Cardinality(F) <= MaxStoreLinks}

StoreNodes(F) ==
  {[id |-> i, text |-> ((i - 1) % NumTexts) + 1,
    links |-> {[kind |-> f[2][1], direction |-> f[3], tag |-> f[2][2]] :
                 f \in {g \in F : g[1] = i}}] : i \in NodeIds}

InitTraversal ==
  /\ \E F \in StoreLinkChoices :
       /\ passages = PassagesOf(StoreNodes(F))
       /\ targets = TargetsOf(StoreNodes(F))
  /\ cq_pending = EmptyBag
  /\ cq_error = NoError
  /\ cq_issued = EmptyBag
  /\ pc = "trav_start"
  /\ idx = 1
  /\ result = NoResult
  /\ nodes = <<>>
  /\ node_ids = <<>>
  /\ written = 0
  /\ ids = <<>>
  /\ results = EmptyTable
  /\ query \in Texts
  /\ k \in 1..MaxK
  /\ depth \in 0..MaxDepth
  /\ visited_ids = EmptyTable
  /\ visited_keys = <<>>
  /\ visited_tags = EmptyTable
  /\ MmrIdle
  /\ AuxIdle

NextTraversal ==
  \/ TraversalStart
  \/ \E s \in DOMAIN cq_pending : AnnQueryDone(s)
  \/ \E s \in DOMAIN cq_pending : TargetsQueryDone(s)
  \/ \E s \in DOMAIN cq_pending : IdQueryDone(s)
  \/ TraversalReturn

SpecTraversal == InitTraversal /\ [][NextTraversal]_vars

\* The backend answers every statement and every callback returns, so a step
\* that can be taken is eventually taken.
FairSpecTraversal == SpecTraversal /\ WF_vars(NextTraversal)

\* -------------------------------------------- traversal_search on wider stores

NumWideNodes == 4
MaxWideLinks == 5

WideNodeIds == 1..NumWideNodes

\* The nodes of a store of NumWideNodes nodes with the links F.
WideStoreNodes(F) ==
  {[id |-> i, text |-> ((i - 1) % NumTexts) + 1,
    links |-> {[kind |-> f[2][1], direction |-> f[3], tag |-> f[2][2]] :
                 f \in {g \in F : g[1] = i}}] : i \in WideNodeIds}

\* Callbacks run one at a time, as in SpecTraversal; the stores have one node
\* and one link more.
InitTraversalWide ==
  /\ \E F \in {G \in SUBSET (WideNodeIds \X TagPairs \X {"in", "out"}) :
                  Cardinality(G) <= MaxWideLinks} :
       /\ passages = PassagesOf(WideStoreNodes(F))
       /\ targets = TargetsOf(WideStoreNodes(F))
  /\ cq_pending = EmptyBag
  /\ cq_error = NoError
  /\ cq_issued = EmptyBag
  /\ pc = "trav_start"
  /\ idx = 1
  /\ result = NoResult
  /\ nodes = <<>>
  /\ node_ids = <<>>
  /\ written = 0
  /\ ids = <<>>
  /\ results = EmptyTable
  /\ query = 1
  /\ k \in 1..MaxK
  /\ depth \in 1..MaxDepth
  /\ visited_ids = EmptyTable
  /\ visited_keys = <<>>
  /\ visited_tags = EmptyTable
  /\ MmrIdle
  /\ AuxIdle

SpecTraversalWide == InitTraversalWide /\ [][NextTraversal]_vars

\* -------------------------------------------- traversal_search, callbacks on threads

\* The stores with up to MaxWideLinks in and out links between the nodes.
WideStoreLinkChoices ==
  {F \in SUBSET (NodeIds \X TagPairs \X {"in", "out"}) :
     Cardinality(F) <= MaxWideLinks}

\* A callback visit_nodes(d, rows) running on a worker thread: it has evaluated
\* the test of line 525 for the first of its remaining rows against the
\* visited ids vis, and has not yet acted on it; out is its outgoing_tags.
VisitNodesThread(d, rows, out, vis) ==
  [cb |-> "visit_nodes", d |-> d, rows |-> rows, out |-> out,
   closer |-> d <= Get(vis, Head(rows), depth)]

\* Lines 526-540 for the first remaining row of the callback c, the test of
\* line 525 having come out as c.closer: the visited ids, their key order, the
\* visited tags and the outgoing_tags of c afterwards.
VisitRow(c) ==
  LET content_id == Head(c.rows)
      link_to_tags == passages[content_id].link_to_tags
      new_tags == IF c.closer /\ c.d < depth
                  THEN {t \in link_to_tags : c.d <= Get(visited_tags, t, depth)}
                  ELSE {}
  IN  [visited_ids |-> IF c.closer THEN Upsert(visited_ids, content_id, c.d)
                       ELSE visited_ids,
       visited_keys |-> IF c.closer /\ content_id \notin DOMAIN visited_ids
                        THEN Append(visited_keys, content_id)
                        ELSE visited_keys,
       visited_tags |-> [t \in (DOMAIN visited_tags) \cup new_tags |->
                           IF t \in new_tags THEN c.d ELSE visited_tags[t]],
       out |-> c.out \cup new_tags]

\* A statement with the callback visit_nodes completes and the callback starts
\* on a worker thread, other callbacks possibly running: it evaluates the test
\* of line 525 for its first row.
VisitNodesBegin(s) ==
  /\ BagIn(s, cq_pending)
  /\ s.cb = "visit_nodes"
  /\ \E rows \in IF s.q = "query_ids_and_link_to_tags_by_embedding"
                 THEN AnnResults(PassageEmbeddings, s.emb, k)
                 ELSE {RowsById(s.id)} :
       /\ rows # <<>>
       /\ cq_callbacks' = cq_callbacks
                           (+) SetToBag({VisitNodesThread(s.d, rows, {}, visited_ids)})
  /\ cq_pending' = cq_pending (-) SetToBag({s})
  /\ UNCHANGED <<storeVars, cq_error, cq_issued, pc, idx, result, addVars, nwiVars,
                 searchVars, mmrVars, cq_errors, prev_call, first_run, ann_memo,
                 setup_mode, schema>>

\* A running visit_nodes acts on the test it evaluated (lines 526-540); it then
\* evaluates the test for its next row or, after its last row, schedules the
\* targets queries of its outgoing tags (lines 542-553) and returns.
VisitNodesAct(c) ==
  /\ BagIn(c, cq_callbacks)
  /\ LET st == VisitRow(c)
         stmts == SetToBag({TargetsByKindAndValue(t, c.d) : t \in st.out})
     IN  /\ visited_ids' = st.visited_ids
         /\ visited_keys' = st.visited_keys
         /\ visited_tags' = st.visited_tags
         /\ IF Tail(c.rows) # <<>>
            THEN /\ cq_callbacks' =
                      (cq_callbacks (-) SetToBag({c}))
                      (+) SetToBag({VisitNodesThread(c.d, Tail(c.rows), st.out,
                                                     st.visited_ids)})
                 /\ UNCHANGED <<cq_pending, cq_issued>>
            ELSE /\ cq_callbacks' = cq_callbacks (-) SetToBag({c})
                 /\ cq_pending' = Execute(cq_pending, cq_error, stmts)
                 /\ cq_issued' = cq_issued (+) stmts
  /\ UNCHANGED <<storeVars, cq_error, pc, idx, result, addVars, nwiVars, query, k,
                 depth, mmrVars, cq_errors, prev_call, first_run, ann_memo,
                 setup_mode, schema>>

\* Lines 504 and 580 with callbacks on threads: the scope is left when nothing
\* is in flight and no callback runs.
TraversalThreadsReturn ==
  /\ pc = "trav_scope"
  /\ Quiescent
  /\ cq_callbacks = EmptyBag
  /\ result' = NodesWithIds(visited_keys)
  /\ pc' = "trav_done"
  /\ UNCHANGED <<storeVars, cqVars, idx, addVars, nwiVars, searchVars, mmrVars, auxVars>>

InitTraversalThreads ==
  /\ \E F \in WideStoreLinkChoices :
       /\ passages = PassagesOf(StoreNodes(F))
       /\ targets = TargetsOf(StoreNodes(F))
  /\ cq_pending = EmptyBag
  /\ cq_error = NoError
  /\ cq_issued = EmptyBag
  /\ pc = "trav_start"
  /\ idx = 1
  /\ result = NoResult
  /\ nodes = <<>>
  /\ node_ids = <<>>
  /\ written = 0
  /\ ids = <<>>
  /\ results = EmptyTable
  /\ query = 1
  /\ k \in 1..MaxK
  /\ depth = MaxDepth
  /\ visited_ids = EmptyTable
  /\ visited_keys = <<>>
  /\ visited_tags = EmptyTable
  /\ MmrIdle
  /\ AuxIdle

NextTraversalThreads ==
  \/ TraversalStart
  \/ \E s \in DOMAIN cq_pending : VisitNodesBegin(s)
  \/ \E c \in DOMAIN cq_callbacks : VisitNodesAct(c)
  \/ \E s \in DOMAIN cq_pending : TargetsQueryDone(s)
  \/ TraversalThreadsReturn

SpecTraversalThreads == InitTraversalThreads /\ [][NextTraversalThreads]_vars

\* ------------------------------------------------------------ MmrHelper

\* The scale of lambda_mult: lambda_mult = n stands for n / LamDen.
LamDen == 2

\* The dot product of an embedding with itself: similarity 1.
SimScale == Dot(EmbTable[1], EmbTable[1])

\* float("-inf") on the scale of the scores: below every score.
NegInf == (0 - (LamDen * SimScale)) - 1

Max(a, b) == IF a >= b THEN a ELSE b

\* MmrHelper(k, query_embedding, lambda_mult, score_threshold)
MmrHelper(kk, q, lam, threshold) ==
  [k |-> kk, query_embedding |-> q, lambda_mult |-> lam,
   score_threshold |-> threshold, candidates |-> EmptyTable, selected |-> <<>>,
   selected_embeddings |-> <<>>]

\* max cosine to any already-selected.
RECURSIVE Redundancy(_, _)
Redundancy(emb, selected_embeddings) ==
  IF selected_embeddings = <<>> THEN 0
  ELSE IF Len(selected_embeddings) = 1 THEN Dot(emb, selected_embeddings[1])
  ELSE Max(Dot(emb, Head(selected_embeddings)),
           Redundancy(emb, Tail(selected_embeddings)))

\* candidate_ids(): the unselected candidate ids.
CandidateIds(h) == DOMAIN h.candidates

\* add_candidates(map): the ids that are neither candidates nor selected become
\* candidates, with their similarity to the query and their redundancy against
\* the selected set.
AddCandidates(h, map) ==
  LET new == (DOMAIN map) \ (CandidateIds(h) \cup Range(h.selected))
  IN  [h EXCEPT !.candidates =
         [id \in CandidateIds(h) \cup new |->
            IF id \in new
            THEN [embedding |-> map[id],
                  similarity_to_query |-> Dot(map[id], h.query_embedding),
                  current_redundancy |-> Redundancy(map[id], h.selected_embeddings)]
            ELSE h.candidates[id]]]

\* The MMR score of a candidate, times LamDen.
Score(h, id) ==
  (h.lambda_mult * h.candidates[id].similarity_to_query)
    - ((LamDen - h.lambda_mult) * h.candidates[id].current_redundancy)

\* a is picked before b: higher score, then higher similarity to the query, then
\* smaller id.
Better(h, a, b) ==
  \/ Score(h, a) > Score(h, b)
  \/ /\ Score(h, a) = Score(h, b)
     /\ \/ h.candidates[a].similarity_to_query > h.candidates[b].similarity_to_query
        \/ /\ h.candidates[a].similarity_to_query = h.candidates[b].similarity_to_query
           /\ a < b

\* best_candidate, or NoId.
BestCandidate(h) ==
  IF CandidateIds(h) = {} THEN NoId
  ELSE CHOOSE a \in CandidateIds(h) : \A b \in CandidateIds(h) \ {a} : Better(h, a, b)

\* pop_best(): the id returned (NoId for None) and the helper afterwards.
PopBest(h) ==
  LET best == BestCandidate(h)
  IN  IF best = NoId \/ Score(h, best) < h.score_threshold
      THEN [id |-> NoId, helper |-> h]
      ELSE LET emb == h.candidates[best].embedding
           IN  [id |-> best,
                helper |->
                  [h EXCEPT
                     !.candidates =
                       [id \in CandidateIds(h) \ {best} |->
                          [h.candidates[id] EXCEPT
                             !.current_redundancy =
                               Max(@, Dot(h.candidates[id].embedding, emb))]],
                     !.selected = Append(@, best),
                     !.selected_embeddings = Append(@, emb)]]

\* ------------------------------------------------------------ _get_adjacent

SourceTagsById(source_id) ==
  Stmt("query_source_tags_by_id", source_id, NoTag, 0, <<>>, {}, {},
       "add_sources", 0)

\* Line 623: k_per_tag or 10.
KPerTag(k_per_tag) == IF k_per_tag = 0 THEN 10 ELSE k_per_tag

\* The last parameter of the statement is its LIMIT.
TargetsEmbeddingsByKindAndTagAndEmbedding(tag, q, limit) ==
  Stmt("query_targets_embeddings_by_kind_and_tag_and_embedding", NoId, tag, 0, q,
       {}, {}, "add_targets", limit)

\* Lines 611-626, add_sources: the tags of the rows that are not yet in
\* visited_tags.
AddSourcesNewTags(rows, visited) ==
  (UNION {passages[id].link_to_tags : id \in Range(rows)}) \ visited

\* The rows of the targets table for a tag: target_content_id ->
\* target_text_embedding.
TargetEmbeddingsOf(tag) ==
  [id \in TargetIdsOf(tag) |-> targets[<<tag[1], tag[2], id>>]]

\* targets[id] = embedding: the embedding of an id already there is replaced,
\* its place is kept.
SetItem(tgts, id, emb) ==
  IF \E i \in DOMAIN tgts : tgts[i].target_content_id = id
  THEN [i \in DOMAIN tgts |->
          IF tgts[i].target_content_id = id
          THEN [target_content_id |-> id, target_text_embedding |-> emb]
          ELSE tgts[i]]
  ELSE Append(tgts, [target_content_id |-> id, target_text_embedding |-> emb])

\* Line 634, targets.setdefault(id, embedding), the dict being kept as the
\* sequence of its items in insertion order.
SetDefault(tgts, id, emb) ==
  IF \E i \in DOMAIN tgts : tgts[i].target_content_id = id
  THEN tgts
  ELSE Append(tgts, [target_content_id |-> id, target_text_embedding |-> emb])

\* Lines 628-634, add_targets: setdefault of every row, in row order.
RECURSIVE AddTargets(_, _, _)
AddTargets(tgts, rows, embs) ==
  IF rows = <<>> THEN tgts
  ELSE AddTargets(SetDefault(tgts, Head(rows), embs[Head(rows)]), Tail(rows), embs)

\* A lookup of the tags of a source completes: add_sources(rows).
SourceTagsDone(s) ==
  /\ BagIn(s, cq_pending)
  /\ s.q = "query_source_tags_by_id"
  /\ LET new_tags == AddSourcesNewTags(RowsById(s.id), visited_tags)
         stmts == SetToBag({TargetsEmbeddingsByKindAndTagAndEmbedding(
                              t, EmbedQuery(query), KPerTag(adjacent_k)) :
                            t \in new_tags})
     IN  /\ visited_tags' = visited_tags \cup new_tags
         /\ cq_pending' = Execute(cq_pending (-) SetToBag({s}), cq_error, stmts)
         /\ cq_issued' = cq_issued (+) stmts
  /\ UNCHANGED <<storeVars, cq_error, pc, idx, result, addVars, nwiVars, query, k,
                 depth, visited_ids, visited_keys, mmrVars, auxVars>>

\* A vector search of the targets of a tag completes: add_targets(rows).
TargetsEmbeddingsDone(s) ==
  /\ BagIn(s, cq_pending)
  /\ s.q = "query_targets_embeddings_by_kind_and_tag_and_embedding"
  /\ \E rows \in AnnAnswers(s.tag, TargetEmbeddingsOf(s.tag), s.emb, s.d) :
       /\ adj_targets' = AddTargets(adj_targets, rows, TargetEmbeddingsOf(s.tag))
       /\ ann_memo' = Upsert(ann_memo, s.tag, rows)
  /\ cq_pending' = cq_pending (-) SetToBag({s})
  /\ UNCHANGED <<storeVars, cq_error, cq_issued, pc, idx, result, addVars, nwiVars,
                 searchVars, fetch_k, adjacent_k, lambda_mult, score_threshold,
                 helper, depths, selected_id, fetched, expanded, cq_callbacks,
                 cq_errors, prev_call, first_run,
                 setup_mode, schema>>

\* ------------------------------------------------------------ mmr_traversal_search

\* Line 433, range(k), taking one turn more.
LoopBoundOneMore(kk) == kk + 1

\* Line 433: for _ in range(k).
LoopBound(kk) == kk

\* The test of line 440 letting nodes at the depth limit expand.
ShouldExpandInclusive(next_depth, limit) == next_depth <= limit

\* Line 440: if next_depth < depth.
ShouldExpand(next_depth, limit) == next_depth < limit

\* Lines 454-470 without the test of line 458: the depth of every adjacent node
\* becomes next_depth.
RECURSIVE UpdateDepthsAlways(_, _, _)
UpdateDepthsAlways(adjacents, next_depth, dp) ==
  IF adjacents = <<>> THEN dp
  ELSE UpdateDepthsAlways(
         Tail(adjacents), next_depth,
         Upsert(dp, Head(adjacents).target_content_id, next_depth))

\* Lines 454-470: the depth of every adjacent node is lowered to next_depth,
\* absent counting as depth + 1.
RECURSIVE UpdateDepths(_, _, _)
UpdateDepths(adjacents, next_depth, dp) ==
  IF adjacents = <<>> THEN dp
  ELSE UpdateDepths(
         Tail(adjacents), next_depth,
         IF next_depth < Get(dp, Head(adjacents).target_content_id, depth + 1)
         THEN Upsert(dp, Head(adjacents).target_content_id, next_depth)
         ELSE dp)

\* Lines 454-457: new_candidates.
NewCandidates(adjacents) ==
  [id \in {e.target_content_id : e \in Range(adjacents)} |->
     (CHOOSE e \in Range(adjacents) : e.target_content_id = id).target_text_embedding]

\* Lines 415-432: the helper is built, the initial candidates are fetched and
\* added at depth 0.
MmrStart ==
  /\ pc = "mmr_start"
  /\ \E rows \in AnnAnswers(NoTag, PassageEmbeddings, EmbedQuery(query), fetch_k) :
       /\ helper' = AddCandidates(
                      MmrHelper(k, EmbedQuery(query), lambda_mult, score_threshold),
                      [id \in Range(rows) |-> passages[id].text_embedding])
       /\ fetched' = Range(rows)
       /\ ann_memo' = Upsert(ann_memo, NoTag, rows)
  /\ depths' = [id \in CandidateIds(helper') |-> 0]
  /\ visited_tags' = {}
  /\ idx' = 0
  /\ pc' = "mmr_loop"
  /\ UNCHANGED <<storeVars, cqVars, result, addVars, nwiVars, query, k, depth,
                 visited_ids, visited_keys, fetch_k, adjacent_k, lambda_mult,
                 score_threshold, selected_id, adj_targets, expanded, cq_callbacks,
                 cq_errors, prev_call, first_run,
                 setup_mode, schema>>

\* Lines 433-452: one turn of the loop up to the call of _get_adjacent, which
\* schedules the lookup of the tags of the selected node (lines 636-642).
MmrPopBest ==
  /\ pc = "mmr_loop"
  /\ idx < LoopBound(k)
  /\ LET popped == PopBest(helper)
     IN  IF popped.id = NoId
         THEN /\ pc' = "mmr_break"
              /\ UNCHANGED <<cqVars, idx, result, helper, selected_id, adj_targets,
                             expanded>>
         ELSE IF popped.id \notin DOMAIN depths
         THEN /\ pc' = "mmr_raised"
              /\ result' = [kind |-> "error", error |-> "KeyError", id |-> popped.id]
              /\ UNCHANGED <<cqVars, idx, helper, selected_id, adj_targets, expanded>>
         ELSE /\ helper' = popped.helper
              /\ selected_id' = popped.id
              /\ IF ShouldExpand(depths[popped.id] + 1, depth)
                 THEN /\ adj_targets' = <<>>
                      /\ cq_pending' = Execute(cq_pending, cq_error,
                                               SetToBag({SourceTagsById(popped.id)}))
                      /\ cq_issued' = cq_issued
                                        (+) SetToBag({SourceTagsById(popped.id)})
                      /\ expanded' = expanded
                                       \cup {<<popped.id, depths[popped.id], idx>>}
                      /\ pc' = "adj_scope"
                      /\ UNCHANGED <<cq_error, idx, result>>
                 ELSE /\ idx' = idx + 1
                      /\ pc' = "mmr_loop"
                      /\ UNCHANGED <<cqVars, result, adj_targets, expanded>>
  /\ UNCHANGED <<storeVars, addVars, nwiVars, searchVars, fetch_k, adjacent_k,
                 lambda_mult, score_threshold, depths, fetched, auxVars>>

\* Lines 636-648 and 454-471: the scope of _get_adjacent is left once quiescent;
\* the edges returned are the targets in insertion order; they become candidates
\* and their depths are lowered.
AdjacentReturn ==
  /\ pc = "adj_scope"
  /\ Quiescent
  /\ depths' = UpdateDepths(adj_targets, depths[selected_id] + 1, depths)
  /\ helper' = AddCandidates(helper, NewCandidates(adj_targets))
  /\ idx' = idx + 1
  /\ pc' = "mmr_loop"
  /\ UNCHANGED <<storeVars, cqVars, result, addVars, nwiVars, searchVars, fetch_k,
                 adjacent_k, lambda_mult, score_threshold, selected_id, adj_targets,
                 fetched, expanded, auxVars>>

\* Line 473: the selected ids are hydrated in selection order.
MmrReturn ==
  /\ \/ pc = "mmr_loop" /\ idx >= LoopBound(k)
     \/ pc = "mmr_break"
  /\ result' = NodesWithIds(helper.selected)
  /\ pc' = "mmr_done"
  /\ UNCHANGED <<storeVars, cqVars, idx, addVars, nwiVars, searchVars, mmrVars, auxVars>>

\* The values of lambda_mult and score_threshold that are tried.
LambdaMults == 0..LamDen

ScoreThresholds == {NegInf, SimScale}

\* The values of adjacent_k that are tried: no limit given, and one row per tag.
AdjacentKs == {0, 1}

InitMmr ==
  /\ \E F \in StoreLinkChoices :
       /\ passages = PassagesOf(StoreNodes(F))
       /\ targets = TargetsOf(StoreNodes(F))
  /\ cq_pending = EmptyBag
  /\ cq_error = NoError
  /\ cq_issued = EmptyBag
  /\ pc = "mmr_start"
  /\ idx = 0
  /\ result = NoResult
  /\ nodes = <<>>
  /\ node_ids = <<>>
  /\ written = 0
  /\ ids = <<>>
  /\ results = EmptyTable
  /\ query \in Texts
  /\ k \in 1..MaxK
  /\ depth \in 1..(MaxDepth + 1)
  /\ visited_ids = EmptyTable
  /\ visited_keys = <<>>
  /\ visited_tags = {}
  /\ fetch_k \in 1..MaxK
  /\ adjacent_k \in AdjacentKs
  /\ lambda_mult \in LambdaMults
  /\ score_threshold \in ScoreThresholds
  /\ helper = [k |-> 0]
  /\ depths = EmptyTable
  /\ selected_id = NoId
  /\ adj_targets = <<>>
  /\ fetched = {}
  /\ expanded = {}
  /\ AuxIdle

NextMmr ==
  \/ MmrStart
  \/ MmrPopBest
  \/ \E s \in DOMAIN cq_pending : SourceTagsDone(s)
  \/ \E s \in DOMAIN cq_pending : TargetsEmbeddingsDone(s)
  \/ AdjacentReturn
  \/ MmrReturn

SpecMmr == InitMmr /\ [][NextMmr]_vars

\* ------------------------------------------------------------ mmr_traversal_search, three turns

MaxDeepK == 3
MaxDeepDepth == 3

\* The links the deeper searches are run on: node 1 leads to node 2 and node 2
\* to node 4 (two hops), node 3 leads to node 4 over another tag (one hop), and
\* two more links close cycles.  Nodes 1 and 3 have the text of the query.
DeepLinks ==
  {<<1, <<"href", 1>>, "out">>, <<2, <<"href", 1>>, "in">>,
   <<2, <<"kw", 1>>, "out">>, <<4, <<"kw", 1>>, "in">>,
   <<3, <<"href", 2>>, "out">>, <<4, <<"href", 2>>, "in">>,
   <<1, <<"kw", 1>>, "in">>, <<3, <<"href", 1>>, "in">>}

\* mmr_traversal_search with k = MaxDeepK on the stores of NumWideNodes nodes
\* whose links are among DeepLinks.
InitMmrDeep ==
  /\ \E F \in SUBSET DeepLinks :
       /\ passages = PassagesOf(WideStoreNodes(F))
       /\ targets = TargetsOf(WideStoreNodes(F))
  /\ cq_pending = EmptyBag
  /\ cq_error = NoError
  /\ cq_issued = EmptyBag
  /\ pc = "mmr_start"
  /\ idx = 0
  /\ result = NoResult
  /\ nodes = <<>>
  /\ node_ids = <<>>
  /\ written = 0
  /\ ids = <<>>
  /\ results = EmptyTable
  /\ query = 1
  /\ k = MaxDeepK
  /\ depth \in 1..MaxDeepDepth
  /\ visited_ids = EmptyTable
  /\ visited_keys = <<>>
  /\ visited_tags = {}
  /\ fetch_k \in 1..MaxK
  /\ adjacent_k = 0
  /\ lambda_mult \in LambdaMults
  /\ score_threshold = NegInf
  /\ helper = [k |-> 0]
  /\ depths = EmptyTable
  /\ selected_id = NoId
  /\ adj_targets = <<>>
  /\ fetched = {}
  /\ expanded = {}
  /\ AuxIdle

SpecMmrDeep == InitMmrDeep /\ [][NextMmr]_vars

\* ------------------------------------------------------------ mmr_traversal_search, run twice

\* The target rows left behind by earlier writes.
MaxStale == 1

\* The text a node had when it was written before.
OtherText(text) == (text % NumTexts) + 1

\* The keys of the targets table the nodes of F have no row under.
StaleKeys(F) ==
  {<<t[1], t[2], i>> : t \in TagPairs, i \in NodeIds} \ DOMAIN TargetsOf(StoreNodes(F))

\* The targets table of the nodes of F, written by add_nodes after the nodes of
\* the keys G had been written with another text and an in link on that tag:
\* the rows of G are still there, with the embedding of the other text.
TargetsWithStale(F, G) ==
  [key \in (DOMAIN TargetsOf(StoreNodes(F))) \cup G |->
     IF key \in G
     THEN Embed(OtherText(PassagesOf(StoreNodes(F))[key[3]].text_content))
     ELSE TargetsOf(StoreNodes(F))[key]]

\* mmr_traversal_search has returned and is called again with the same
\* arguments on the same store.
MmrAgain ==
  /\ pc = "mmr_done"
  /\ first_run = NoResult
  /\ first_run' = result
  /\ pc' = "mmr_start"
  /\ idx' = 0
  /\ result' = NoResult
  /\ cq_issued' = EmptyBag
  /\ visited_tags' = {}
  /\ helper' = [k |-> 0]
  /\ depths' = EmptyTable
  /\ selected_id' = NoId
  /\ adj_targets' = <<>>
  /\ fetched' = {}
  /\ expanded' = {}
  /\ UNCHANGED <<storeVars, cq_pending, cq_error, addVars, nwiVars, query, k, depth,
                 visited_ids, visited_keys, fetch_k, adjacent_k, lambda_mult,
                 score_threshold, cq_callbacks, cq_errors, prev_call, ann_memo,
                 setup_mode, schema>>

InitMmrTwice ==
  /\ \E F \in StoreLinkChoices :
       \E G \in SUBSET StaleKeys(F) :
         /\ Cardinality(G) <= MaxStale
         /\ Cardinality(F) + Cardinality(G) <= MaxStoreLinks
         /\ passages = PassagesOf(StoreNodes(F))
         /\ targets = TargetsWithStale(F, G)
  /\ cq_pending = EmptyBag
  /\ cq_error = NoError
  /\ cq_issued = EmptyBag
  /\ pc = "mmr_start"
  /\ idx = 0
  /\ result = NoResult
  /\ nodes = <<>>
  /\ node_ids = <<>>
  /\ written = 0
  /\ ids = <<>>
  /\ results = EmptyTable
  /\ query \in Texts
  /\ k = MaxK
  /\ depth \in 2..(MaxDepth + 1)
  /\ visited_ids = EmptyTable
  /\ visited_keys = <<>>
  /\ visited_tags = {}
  /\ fetch_k \in 1..MaxK
  /\ adjacent_k \in AdjacentKs
  /\ lambda_mult \in LambdaMults
  /\ score_threshold = NegInf
  /\ helper = [k |-> 0]
  /\ depths = EmptyTable
  /\ selected_id = NoId
  /\ adj_targets = <<>>
  /\ fetched = {}
  /\ expanded = {}
  /\ AuxIdle

NextMmrTwice ==
  \/ MmrStart
  \/ MmrPopBest
  \/ \E s \in DOMAIN cq_pending : SourceTagsDone(s)
  \/ \E s \in DOMAIN cq_pending : TargetsEmbeddingsDone(s)
  \/ AdjacentReturn
  \/ MmrReturn
  \/ MmrAgain

SpecMmrTwice == InitMmrTwice /\ [][NextMmrTwice]_vars

\* ------------------------------------------------------------ _get_adjacent, callbacks on threads

MaxSources == 2
MaxAdjLinks == 4

\* A callback add_sources(rows) running on a worker thread: it has evaluated
\* the test of line 614 for new_tag against the visited tags, and has not yet
\* acted on it; todo are the tags of its rows it has still to go through.
AddSourcesThread(new_tag, todo, visited) ==
  [cb |-> "add_sources", new_tag |-> new_tag, todo |-> todo,
   absent |-> new_tag \notin visited]

\* A callback add_targets(rows) running on a worker thread, before the
\* setdefault of the first of its remaining rows; the rows are those of tag.
AddTargetsThread(tag, rows) == [cb |-> "add_targets", tag |-> tag, rows |-> rows]

\* Lines 636-642: _get_adjacent is called with source ids and the tags visited
\* so far, and schedules the lookup of the tags of every source.
GetAdjacentCall ==
  /\ pc = "adj_call"
  /\ \E sources \in {S \in SUBSET NodeIds : S # {} /\ Cardinality(S) <= MaxSources} :
       LET stmts == SetToBag({SourceTagsById(id) : id \in sources})
       IN  /\ cq_pending' = Execute(cq_pending, cq_error, stmts)
           /\ cq_issued' = cq_issued (+) stmts
  /\ \E visited \in SUBSET TagPairs : visited_tags' = visited
  /\ adj_targets' = <<>>
  /\ pc' = "adj_scope"
  /\ UNCHANGED <<storeVars, cq_error, idx, result, addVars, nwiVars, query, k, depth,
                 visited_ids, visited_keys, fetch_k, adjacent_k, lambda_mult,
                 score_threshold, helper, depths, selected_id, fetched, expanded,
                 auxVars>>

\* The lookup of the tags of a source completes and add_sources starts on a
\* worker thread, other callbacks possibly running: it evaluates the test of
\* line 614 for the first tag of its rows, the tags coming in any order.
AddSourcesBegin(s) ==
  /\ BagIn(s, cq_pending)
  /\ s.q = "query_source_tags_by_id"
  /\ LET tags == UNION {passages[id].link_to_tags : id \in Range(RowsById(s.id))}
     IN  IF tags = {}
         THEN cq_callbacks' = cq_callbacks
         ELSE \E t \in tags :
                cq_callbacks' = cq_callbacks
                                  (+) SetToBag({AddSourcesThread(t, tags \ {t},
                                                                 visited_tags)})
  /\ cq_pending' = cq_pending (-) SetToBag({s})
  /\ UNCHANGED <<storeVars, cq_error, cq_issued, pc, idx, result, addVars, nwiVars,
                 searchVars, mmrVars, cq_errors, prev_call, first_run, ann_memo,
                 setup_mode, schema>>

\* A running add_sources acts on the test it evaluated: when the tag was absent
\* it adds it to visited_tags and schedules its targets query (lines 615-626);
\* it then evaluates the test for its next tag, or returns.
AddSourcesAct(c) ==
  /\ BagIn(c, cq_callbacks)
  /\ c.cb = "add_sources"
  /\ LET stmts == IF c.absent
                  THEN SetToBag({TargetsEmbeddingsByKindAndTagAndEmbedding(
                                   c.new_tag, EmbedQuery(query), KPerTag(adjacent_k))})
                  ELSE EmptyBag
         visited == IF c.absent THEN visited_tags \cup {c.new_tag} ELSE visited_tags
     IN  /\ visited_tags' = visited
         /\ cq_pending' = Execute(cq_pending, cq_error, stmts)
         /\ cq_issued' = cq_issued (+) stmts
         /\ IF c.todo = {}
            THEN cq_callbacks' = cq_callbacks (-) SetToBag({c})
            ELSE \E t \in c.todo :
                   cq_callbacks' = (cq_callbacks (-) SetToBag({c}))
                                     (+) SetToBag({AddSourcesThread(t, c.todo \ {t},
                                                                    visited)})
  /\ UNCHANGED <<storeVars, cq_error, pc, idx, result, addVars, nwiVars, query, k,
                 depth, visited_ids, visited_keys, mmrVars, cq_errors, prev_call,
                 first_run, ann_memo, setup_mode, schema>>

\* A vector search of the targets of a tag completes and add_targets starts on
\* a worker thread with the rows answered.
AddTargetsBegin(s) ==
  /\ BagIn(s, cq_pending)
  /\ s.q = "query_targets_embeddings_by_kind_and_tag_and_embedding"
  /\ \E rows \in AnnAnswers(s.tag, TargetEmbeddingsOf(s.tag), s.emb, s.d) :
       /\ ann_memo' = Upsert(ann_memo, s.tag, rows)
       /\ cq_callbacks' = IF rows = <<>> THEN cq_callbacks
                          ELSE cq_callbacks (+) SetToBag({AddTargetsThread(s.tag, rows)})
  /\ cq_pending' = cq_pending (-) SetToBag({s})
  /\ UNCHANGED <<storeVars, cq_error, cq_issued, pc, idx, result, addVars, nwiVars,
                 searchVars, mmrVars, cq_errors, prev_call, first_run,
                 setup_mode, schema>>

\* Line 634 for one row of a running add_targets.
AddTargetsRow(c) ==
  /\ BagIn(c, cq_callbacks)
  /\ c.cb = "add_targets"
  /\ adj_targets' = SetDefault(adj_targets, Head(c.rows),
                               TargetEmbeddingsOf(c.tag)[Head(c.rows)])
  /\ cq_callbacks' = IF Tail(c.rows) = <<>>
                     THEN cq_callbacks (-) SetToBag({c})
                     ELSE (cq_callbacks (-) SetToBag({c}))
                            (+) SetToBag({AddTargetsThread(c.tag, Tail(c.rows))})
  /\ UNCHANGED <<storeVars, cqVars, pc, idx, result, addVars, nwiVars, searchVars,
                 fetch_k, adjacent_k, lambda_mult, score_threshold, helper, depths,
                 selected_id, fetched, expanded, cq_errors, prev_call, first_run,
                 ann_memo, setup_mode, schema>>

\* Lines 636 and 645-648: the scope is left when nothing is in flight and no
\* callback runs; the edges are the targets in insertion order.
GetAdjacentReturn ==
  /\ pc = "adj_scope"
  /\ Quiescent
  /\ cq_callbacks = EmptyBag
  /\ result' = [kind |-> "edges", edges |-> adj_targets]
  /\ pc' = "adj_done"
  /\ UNCHANGED <<storeVars, cqVars, idx, addVars, nwiVars, searchVars, mmrVars, auxVars>>

\* The stores _get_adjacent is called on: up to MaxAdjLinks links, and up to
\* MaxStale target rows left by earlier writes.
InitAdjacentThreads ==
  /\ \E F \in {H \in StoreLinkChoices : Cardinality(H) <= MaxAdjLinks} :
       \E G \in {H \in SUBSET StaleKeys(F) : Cardinality(H) <= MaxStale} :
         /\ passages = PassagesOf(StoreNodes(F))
         /\ targets = TargetsWithStale(F, G)
  /\ cq_pending = EmptyBag
  /\ cq_error = NoError
  /\ cq_issued = EmptyBag
  /\ pc = "adj_call"
  /\ idx = 0
  /\ result = NoResult
  /\ nodes = <<>>
  /\ node_ids = <<>>
  /\ written = 0
  /\ ids = <<>>
  /\ results = EmptyTable
  /\ query = 1
  /\ k = 1
  /\ depth = 0
  /\ visited_ids = EmptyTable
  /\ visited_keys = <<>>
  /\ visited_tags = {}
  /\ fetch_k = 1
  /\ adjacent_k = 0
  /\ lambda_mult = 1
  /\ score_threshold = 0
  /\ helper = [k |-> 0]
  /\ depths = EmptyTable
  /\ selected_id = NoId
  /\ adj_targets = <<>>
  /\ fetched = {}
  /\ expanded = {}
  /\ AuxIdle

NextAdjacentThreads ==
  \/ GetAdjacentCall
  \/ \E s \in DOMAIN cq_pending : AddSourcesBegin(s)
  \/ \E c \in DOMAIN cq_callbacks : AddSourcesAct(c)
  \/ \E s \in DOMAIN cq_pending : AddTargetsBegin(s)
  \/ \E c \in DOMAIN cq_callbacks : AddTargetsRow(c)
  \/ GetAdjacentReturn

SpecAdjacentThreads == InitAdjacentThreads /\ [][NextAdjacentThreads]_vars

\* ------------------------------------------------------------ the scope, with failures

\* The in-flight limit of the scope.
MaxInFlight == 2

\* The executes of the calling thread in one scope.
MaxCalls == 3

\* The executes of one callback.
MaxFanOut == 2

\* Callbacks of statements scheduled at this level schedule nothing.
MaxLevel == 1

InFlight == BagCardinality(cq_pending)

\* When saturated, execute blocks until a slot frees.
Saturated == InFlight >= MaxInFlight

\* The scope keeping the error raised last.
CaptureLatest(error, e) == e

\* The scope keeps the first error raised.
Capture(error, e) == IF error = NoError THEN e ELSE error

\* The exceptions that are raised: the i-th one raised in a scope is ErrorOf(i).
ErrorIds ==
  <<"error 1", "error 2", "error 3", "error 4", "error 5", "error 6", "error 7",
    "error 8">>

ErrorOf(i) == ErrorIds[((i - 1) % Len(ErrorIds)) + 1]

\* What is raised next, by a statement or by a callback.
Raised(kind) == [kind |-> kind, error |-> ErrorOf(Len(cq_errors) + 1)]

ScopeStmt(level) == [q |-> "statement", level |-> level]

\* The calling thread calls execute: a poisoned scope schedules nothing and
\* returns; otherwise the call waits for a slot.
ScopeExecute ==
  /\ pc = "scope_body"
  /\ idx > 0
  /\ IF cq_error # NoError
     THEN UNCHANGED <<cq_pending, cq_issued>>
     ELSE /\ ~Saturated
          /\ cq_pending' = cq_pending (+) SetToBag({ScopeStmt(0)})
          /\ cq_issued' = cq_issued (+) SetToBag({ScopeStmt(0)})
  /\ idx' = idx - 1
  /\ UNCHANGED <<storeVars, cq_error, pc, result, addVars, nwiVars, searchVars,
                 mmrVars, auxVars>>

\* The calling thread reaches the end of the scope.
ScopeBodyEnds ==
  /\ pc = "scope_body"
  /\ idx = 0
  /\ pc' = "scope_exit"
  /\ UNCHANGED <<storeVars, cqVars, idx, result, addVars, nwiVars, searchVars,
                 mmrVars, auxVars>>

\* A statement finishes and its slot frees; its callback starts on a worker thread
\* with fan executes to make. In a poisoned scope the callback may be skipped.
ScopeStatementDone(s) ==
  /\ BagIn(s, cq_pending)
  /\ s.q = "statement"
  /\ cq_pending' = cq_pending (-) SetToBag({s})
  /\ \/ \E fan \in 0..(IF s.level < MaxLevel THEN MaxFanOut ELSE 0) :
          cq_callbacks' = cq_callbacks
                            (+) SetToBag({[level |-> s.level, remaining |-> fan]})
     \/ /\ cq_error # NoError
        /\ UNCHANGED cq_callbacks
  /\ UNCHANGED <<storeVars, cq_error, cq_issued, pc, idx, result, addVars, nwiVars,
                 searchVars, mmrVars, cq_errors, prev_call, first_run, ann_memo,
                 setup_mode, schema>>

\* The backend fails a statement: its slot frees and the error is captured.
ScopeStatementFails(s) ==
  /\ BagIn(s, cq_pending)
  /\ s.q = "statement"
  /\ cq_pending' = cq_pending (-) SetToBag({s})
  /\ cq_errors' = Append(cq_errors, Raised("statement"))
  /\ cq_error' = Capture(cq_error, Raised("statement").error)
  /\ UNCHANGED <<storeVars, cq_issued, pc, idx, result, addVars, nwiVars, searchVars,
                 mmrVars, cq_callbacks, prev_call, first_run, ann_memo,
                 setup_mode, schema>>

\* A callback calls execute, as the calling thread does.
CallbackExecute(c) ==
  /\ BagIn(c, cq_callbacks)
  /\ c.remaining > 0
  /\ IF cq_error # NoError
     THEN UNCHANGED <<cq_pending, cq_issued>>
     ELSE /\ ~Saturated
          /\ cq_pending' = cq_pending (+) SetToBag({ScopeStmt(c.level + 1)})
          /\ cq_issued' = cq_issued (+) SetToBag({ScopeStmt(c.level + 1)})
  /\ cq_callbacks' = (cq_callbacks (-) SetToBag({c}))
                       (+) SetToBag({[c EXCEPT !.remaining = @ - 1]})
  /\ UNCHANGED <<storeVars, cq_error, pc, idx, result, addVars, nwiVars, searchVars,
                 mmrVars, cq_errors, prev_call, first_run, ann_memo,
                 setup_mode, schema>>

\* A callback returns or raises; what it raises is captured.
CallbackEnds(c) ==
  /\ BagIn(c, cq_callbacks)
  /\ c.remaining = 0
  /\ cq_callbacks' = cq_callbacks (-) SetToBag({c})
  /\ \/ /\ cq_errors' = Append(cq_errors, Raised("callback"))
        /\ cq_error' = Capture(cq_error, Raised("callback").error)
     \/ UNCHANGED <<cq_error, cq_errors>>
  /\ UNCHANGED <<storeVars, cq_pending, cq_issued, pc, idx, result, addVars, nwiVars,
                 searchVars, mmrVars, prev_call, first_run, ann_memo,
                 setup_mode, schema>>

\* Nothing scheduled is unfinished and no callback is running.
ScopeQuiescent == Quiescent /\ cq_callbacks = EmptyBag

\* Scope exit: blocks until quiescent, then re-raises the captured error.
ScopeExit ==
  /\ pc = "scope_exit"
  /\ ScopeQuiescent
  /\ IF cq_error = NoError
     THEN /\ pc' = "scope_exited"
          /\ result' = [kind |-> "left"]
     ELSE /\ pc' = "scope_raised"
          /\ result' = [kind |-> "error", error |-> cq_error]
  /\ UNCHANGED <<storeVars, cqVars, idx, addVars, nwiVars, searchVars, mmrVars,
                 auxVars>>

InitScope ==
  /\ passages = EmptyTable
  /\ targets = EmptyTable
  /\ cq_pending = EmptyBag
  /\ cq_error = NoError
  /\ cq_issued = EmptyBag
  /\ pc = "scope_body"
  /\ idx \in 1..MaxCalls
  /\ result = NoResult
  /\ nodes = <<>>
  /\ node_ids = <<>>
  /\ written = 0
  /\ ids = <<>>
  /\ results = EmptyTable
  /\ query = 1
  /\ k = 1
  /\ depth = 0
  /\ visited_ids = EmptyTable
  /\ visited_keys = <<>>
  /\ visited_tags = EmptyTable
  /\ MmrIdle
  /\ AuxIdle

NextScope ==
  \/ ScopeExecute
  \/ ScopeBodyEnds
  \/ \E s \in DOMAIN cq_pending : ScopeStatementDone(s)
  \/ \E s \in DOMAIN cq_pending : ScopeStatementFails(s)
  \/ \E c \in DOMAIN cq_callbacks : CallbackExecute(c)
  \/ \E c \in DOMAIN cq_callbacks : CallbackEnds(c)
  \/ ScopeExit

SpecScope == InitScope /\ [][NextScope]_vars

\* The backend answers every statement and every thread that can run does.
FairSpecScope == SpecScope /\ WF_vars(NextScope)

\* ------------------------------------------------------------ add_nodes: claims

\* The positions of the current batch.
Written == DOMAIN nodes

\* The links of a node that make it a destination of their tag.
InLinks(links) == {l \in links : l.direction = "in" \/ l.direction = "bidir"}

\* The links of a node that make it a source of their tag.
OutLinks(links) == {l \in links : l.direction = "out" \/ l.direction = "bidir"}

\* C4: after add_nodes returned successfully, every in/bidir link (k, t) of every
\* written node x has a targets row ((k, t), x), and that row's embedding is the
\* embedding stored in x's passage row.
C4_TargetRowMatchesPassage ==
  (pc = "returned") =>
    \A i \in Written : \A l \in InLinks(nodes[i].links) :
      /\ <<l.kind, l.tag, node_ids[i]>> \in DOMAIN targets
      /\ node_ids[i] \in DOMAIN passages
      /\ targets[<<l.kind, l.tag, node_ids[i]>>]
           = passages[node_ids[i]].text_embedding

C7_TargetHasPassage ==
  \A key \in DOMAIN targets :
    /\ key[3] \in DOMAIN passages
    /\ \E l \in InLinks(passages[key[3]].links_blob) :
         l.kind = key[1] /\ l.tag = key[2]

\* ------------------------------------------------------------ _nodes_with_ids: claims

AllRowsExist == \A i \in DOMAIN ids : ids[i] \in DOMAIN passages

\* C6: when every requested id has a passage row, _nodes_with_ids returns one
\* Node per element of ids, repeated ids included, in the order of ids, and the
\* scope was asked for exactly one primary-key lookup per distinct id and for
\* nothing else; at no time has an id been looked up twice.
C6_OneNodePerIdInOrder ==
  /\ \A s \in DOMAIN cq_issued : s.q = "query_by_id" => CopiesIn(s, cq_issued) = 1
  /\ (pc = "nwi_done" /\ AllRowsExist) =>
       /\ result.kind = "nodes"
       /\ Len(result.nodes) = Len(ids)
       /\ \A i \in DOMAIN ids :
            /\ result.nodes[i].id = ids[i]
            /\ result.nodes[i].text = passages[ids[i]].text_content
       /\ {s.id : s \in DOMAIN cq_issued} = Range(ids)
       /\ BagCardinality(cq_issued) = Cardinality(Range(ids))

\* C6 witness: a list with a repeated id between two other ids was returned.
C6_Witness ==
  /\ pc = "nwi_done"
  /\ AllRowsExist
  /\ Len(ids) = 3
  /\ ids[1] = ids[3]
  /\ ids[1] # ids[2]
  /\ result.kind = "nodes"

\* C10: _nodes_with_ids raises "No node with ID" exactly when some requested id
\* has no passage row; the error names the first such id of the list and no
\* list, partial or not, is returned with it.
C10_RaisesIffRowMissing ==
  (pc = "nwi_done") =>
    IF AllRowsExist
    THEN result.kind = "nodes"
    ELSE /\ result.kind = "error"
         /\ result.error = "No node with ID"
         /\ result.id \notin DOMAIN passages
         /\ \E i \in DOMAIN ids :
              /\ ids[i] = result.id
              /\ \A j \in 1..(i - 1) : ids[j] \in DOMAIN passages
         /\ DOMAIN result = {"kind", "error", "id"}

\* C10 witness: the error was raised for a list whose first id has a row and
\* whose second has none.
C10_Witness ==
  /\ pc = "nwi_done"
  /\ Len(ids) >= 2
  /\ ids[1] \in DOMAIN passages
  /\ ids[2] \notin DOMAIN passages
  /\ result.kind = "error"

\* ------------------------------------------------------------ traversal_search: claims

\* One tag hop: a has a passage row whose link_to_tags holds a tag for which b
\* has a targets row.
Hop(a, b) ==
  /\ a \in DOMAIN passages
  /\ \E t \in passages[a].link_to_tags : <<t[1], t[2], b>> \in DOMAIN targets

\* The ids within n hops of the ids S.
RECURSIVE Within(_, _)
Within(S, n) ==
  IF n = 0 THEN S
  ELSE LET near == Within(S, n - 1)
       IN  near \cup {b \in NodeIds : \E a \in near : Hop(a, b)}

ReturnedIds == [i \in DOMAIN result.nodes |-> result.nodes[i].id]

IsTargetsQuery(s) == s.q = "query_targets_by_kind_and_value"

\* C1: the ids traversal_search returns are all within depth tag hops of the
\* rows of one answer to the seed query; with depth 0 they are exactly those
\* rows, and the scope is never asked for a targets query.
C1_ReturnedWithinDepth ==
  /\ (depth = 0) => \A s \in DOMAIN cq_issued : ~IsTargetsQuery(s)
  /\ (pc = "trav_done") =>
       /\ result.kind = "nodes"
       /\ \E seed \in AnnResults(PassageEmbeddings, EmbedQuery(query), k) :
            /\ Range(ReturnedIds) \subseteq Within(Range(seed), depth)
            /\ (depth = 0) => ReturnedIds = seed

\* C1 witness: a search of depth 1 returned a node one hop from the seed while
\* a node two hops away exists and was not returned.
C1_Witness ==
  /\ pc = "trav_done"
  /\ depth = 1
  /\ k = 1
  /\ Len(ReturnedIds) >= 2
  /\ \E b \in NodeIds :
       /\ b \in Within({ReturnedIds[1]}, 2)
       /\ b \notin Range(ReturnedIds)

\* C2: once traversal_search has left its scope, no statement scheduled in it,
\* by the caller or by a callback, is unfinished; the ids hydrated are the keys
\* visited_ids holds, and visited_ids is not written again.
C2_ScopeExitIsQuiescent ==
  /\ [](pc = "trav_done" =>
          /\ cq_pending = EmptyBag
          /\ result = NodesWithIds(visited_keys)
          /\ Range(visited_keys) = DOMAIN visited_ids)
  /\ [][pc = "trav_done" => visited_ids' = visited_ids /\ visited_keys' = visited_keys]_vars

\* C2 witness: the scope was left after a callback of a callback of a callback
\* had scheduled a statement (a lookup for depth 2).
C2_Witness ==
  /\ pc = "trav_done"
  /\ \E s \in DOMAIN cq_issued : s.cb = "visit_nodes" /\ s.d = 2

\* The place of a statement in the chain seed query, targets query of depth 0,
\* lookup for depth 1, targets query of depth 1, ...
Level(s) ==
  CASE s.q = "query_ids_and_link_to_tags_by_embedding" -> 0
    [] s.q = "query_targets_by_kind_and_value" -> 2 * s.d + 1
    [] s.q = "query_ids_and_link_to_tags_by_id" -> 2 * s.d

\* More than the statements one callback can schedule.
FanOut == Cardinality(TagPairs) + NumNodes + 1

RECURSIVE Power(_, _)
Power(b, e) == IF e <= 0 THEN 1 ELSE b * Power(b, e - 1)

RECURSIVE WeightOf(_, _)
WeightOf(bag, S) ==
  IF S = {} THEN 0
  ELSE LET s == CHOOSE x \in S : TRUE
       IN  bag[s] * Power(FanOut, 2 * depth + 1 - Level(s)) + WeightOf(bag, S \ {s})

\* The unfinished work of the scope, a statement early in the chain weighing
\* more than all the statements its callback can schedule.
Measure == WeightOf(cq_pending, DOMAIN cq_pending)

\* C8: on every store, cyclic or not, every callback of traversal_search lowers
\* the measure of the unfinished work, so only finitely many statements are
\* scheduled, and the scope becomes quiescent and is left.
C8_TraversalTerminates ==
  /\ [][(pc = "trav_scope" /\ pc' = "trav_scope") => Measure' < Measure]_vars
  /\ <>(pc = "trav_done")

\* C8 witness: a search of depth 2 has ended on a store in which the seed and
\* another node are each source and target of one tag.
C8_Witness ==
  /\ pc = "trav_done"
  /\ depth = 2
  /\ \E a, b \in DOMAIN visited_ids : \E t \in TagPairs :
       /\ a # b
       /\ visited_ids[a] = 0
       /\ t \in passages[a].link_to_tags
       /\ t \in passages[b].link_to_tags
       /\ <<t[1], t[2], a>> \in DOMAIN targets
       /\ <<t[1], t[2], b>> \in DOMAIN targets

\* ------------------------------------------------------------ mmr_traversal_search: claims

\* The program points of mmr_traversal_search after the helper is built.
MmrRunning == pc \in {"mmr_loop", "adj_scope", "mmr_break", "mmr_done"}

Injective(s) == \A i, j \in DOMAIN s : s[i] = s[j] => i = j

\* The ids of the edges the last call of _get_adjacent returned.
AdjacentIds == {e.target_content_id : e \in Range(adj_targets)}

\* C3: mmr_traversal_search returns at most k nodes and no id twice: at every
\* point of the loop the selection has at most k ids, all different, and the
\* nodes returned are the nodes of the selection, in selection order.
C3_AtMostKDistinct ==
  /\ MmrRunning => Len(helper.selected) <= k /\ Injective(helper.selected)
  /\ (pc = "mmr_done" /\ result.kind = "nodes") =>
       /\ ReturnedIds = helper.selected
       /\ Len(result.nodes) <= k
       /\ Injective(ReturnedIds)

\* C3 witness: k nodes were returned, and the one call of _get_adjacent, made for
\* the first selected id, returned that id itself (already selected) and another
\* id the initial fetch had already made a candidate.
C3_Witness ==
  /\ pc = "mmr_done"
  /\ k = MaxK
  /\ Len(result.nodes) = k
  /\ {e[3] : e \in expanded} = {0}
  /\ helper.selected[1] \in AdjacentIds
  /\ \E id \in AdjacentIds \cap fetched : id # helper.selected[1]

ExecutePending(c) == BagIn(c, cq_callbacks) /\ c.remaining > 0

\* C11: once a statement or a callback has raised in a scope, an execute of the
\* calling thread or of a callback can always return (it does not wait for a
\* slot), the scope is left only with nothing in flight and no callback running,
\* leaving it raises the first error that was raised, and it is eventually left.
C11_PoisonedScopeExits ==
  /\ [](cq_error # NoError =>
          /\ (pc = "scope_body" /\ idx > 0) => ENABLED ScopeExecute
          /\ \A c \in DOMAIN cq_callbacks :
               ExecutePending(c) => ENABLED CallbackExecute(c))
  /\ [](pc \in {"scope_exited", "scope_raised"} => ScopeQuiescent)
  /\ []((pc = "scope_raised") =>
          cq_errors # <<>>
            /\ result = [kind |-> "error", error |-> cq_errors[1].error])
  /\ []((pc = "scope_exited") => cq_errors = <<>>)
  /\ (cq_errors # <<>>) ~> (pc = "scope_raised")

\* C11 witness: the scope was left raising, after a callback and a statement had
\* both raised and while fewer statements were scheduled than executes were
\* called.
C11_Witness ==
  /\ pc = "scope_raised"
  /\ \E i, j \in DOMAIN cq_errors :
       cq_errors[i].kind = "callback" /\ cq_errors[j].kind = "statement"
  /\ result.error = cq_errors[1].error
  /\ cq_errors[1].error # cq_errors[Len(cq_errors)].error
  /\ ScopeQuiescent

\* ------------------------------------------------------------ add_nodes: more claims

\* The last successful calls of add_nodes were two calls with the same single
\* node, which has an id of its own.
SameNodeTwice ==
  /\ pc = "returned"
  /\ prev_call.kind = "call"
  /\ prev_call.times = 2
  /\ Len(prev_call.batch) = 1
  /\ prev_call.batch[1].id # NoId

\* C12: after add_nodes was called twice with the same node, of explicit id, the
\* node table and the targets table are as the first call left them.
C12_SecondWriteChangesNothing ==
  SameNodeTwice => passages = prev_call.passages /\ targets = prev_call.targets

\* C12 witness: the same node with a link was written twice, and it has a passage
\* row and a target row.
C12_Witness ==
  /\ SameNodeTwice
  /\ prev_call.batch[1].links # {}
  /\ prev_call.batch[1].id \in DOMAIN passages
  /\ targets # EmptyTable

\* ------------------------------------------------------------ mmr_traversal_search, run twice: claims

\* C13: store, query and parameters being the same, and the backend answering
\* the same vector search with the same rows, the second run of
\* mmr_traversal_search returns the ids the first run returned, whatever the
\* order in which the queries of _get_adjacent complete.
C13_SameIdsInEveryRun ==
  (pc = "mmr_done" /\ first_run # NoResult) => result = first_run

\* The statements a call schedules for the nodes ns under the ids the_ids.
RECURSIVE StatementsFor(_, _)
StatementsFor(the_ids, ns) ==
  IF ns = <<>> THEN EmptyBag
  ELSE NodeStatements(Head(the_ids), Head(ns)) (+) StatementsFor(Tail(the_ids), Tail(ns))

\* C14: add_nodes returns one id per node, in the order of the nodes: the id of
\* the node when it has one, a generated id otherwise, which no other position
\* of the batch has and under which the store had no row when add_nodes was
\* called; the passage insert and the target inserts of node i were scheduled
\* under the id returned at position i, and its passage row is there.
C14_OneIdPerNodeInOrder ==
  /\ []((pc = "returned") =>
          /\ result.kind = "ids"
          /\ Len(result.ids) = Len(nodes)
          /\ \A i \in DOMAIN nodes :
               /\ nodes[i].id # NoId => result.ids[i] = nodes[i].id
               /\ nodes[i].id = NoId =>
                    /\ result.ids[i] \in GenIds
                    /\ \A j \in DOMAIN nodes : j # i => result.ids[j] # result.ids[i]
               /\ result.ids[i] \in DOMAIN passages
          /\ cq_issued = StatementsFor(result.ids, nodes))
  /\ [][(pc # "add_loop" /\ pc' = "add_loop") =>
          \A i \in DOMAIN nodes' :
            nodes'[i].id = NoId => node_ids'[i] \notin DOMAIN passages]_vars

\* C14 witness: a batch of a node without id, which has an in link, and a node
\* with an id was written; both kinds of id were returned in the order of the
\* nodes, and the target row of the first node is under its generated id.
C14_Witness ==
  /\ pc = "returned"
  /\ Len(nodes) = 2
  /\ nodes[1].id = NoId
  /\ nodes[2].id # NoId
  /\ LinkFromTags(nodes[1].links) # {}
  /\ result.ids[1] \in GenIds
  /\ result.ids[2] = nodes[2].id
  /\ \E key \in DOMAIN targets : key[3] = result.ids[1]

\* ------------------------------------------------------------ __init__: claims

\* The store has been constructed: __init__ returned without raising.
Constructed == pc \notin {"constructing", "construct_raised"}

\* C15: a store constructed with SYNC has the schema applied, one constructed
\* with OFF has no schema statement executed, and with any other mode, ASYNC,
\* the construction raises an error and no store is constructed, nothing
\* having been applied; the docstring of the class lists ASYNC among the modes.
C15_SetupModes ==
  /\ Constructed =>
       \/ setup_mode = "SYNC" /\ schema = ApplySchema
       \/ setup_mode = "OFF" /\ schema = {}
  /\ pc = "construct_raised" =>
       /\ setup_mode \notin {"SYNC", "OFF"}
       /\ result.kind = "error"
       /\ schema = {}
  /\ setup_mode \notin {"SYNC", "OFF"} => ~Constructed
  /\ "ASYNC" \in DocstringModes
  /\ "ASYNC" \in SetupModes

\* C15 witness: the construction with ASYNC has raised.
C15_Witness ==
  /\ pc = "construct_raised"
  /\ setup_mode = "ASYNC"
  /\ result = [kind |-> "error", error |-> "ValueError"]

\* ------------------------------------------------- traversal_search: more claims

\* C16: the callbacks of a traversal_search change visited_ids one after the
\* other, the test of line 525 and the write of line 526 of one callback never
\* being interleaved with those of another, so that the depth recorded for an
\* id is never replaced by a higher one.
C16_LowerDepthNeverOverwritten ==
  [][\A id \in DOMAIN visited_ids :
       id \in DOMAIN visited_ids' /\ visited_ids'[id] <= visited_ids[id]]_vars

\* The ids that have a passage row and are within n tag hops of the ids S.
RECURSIVE Reach(_, _)
Reach(S, n) ==
  IF n = 0 THEN S
  ELSE LET near == Reach(S, n - 1)
       IN  near \cup {b \in DOMAIN passages : \E a \in near : Hop(a, b)}

\* The length of the shortest path of tag hops from one of the ids S to id,
\* for an id that can be reached.
Distance(S, id) ==
  CHOOSE n \in 0..Cardinality(DOMAIN passages) :
    /\ id \in Reach(S, n)
    /\ n > 0 => id \notin Reach(S, n - 1)

\* The answers to the seed query of the search.
SeedAnswers == AnnResults(PassageEmbeddings, EmbedQuery(query), k)

\* C17: callbacks running one at a time, the depth recorded for an id is always
\* between 0 and depth, it is never removed and never replaced by a higher one,
\* and when the search has left its scope it is, for every recorded id, the
\* length of the shortest path of tag hops from a row of the seed answer.
C17_RecordedDepthIsDistance ==
  /\ [](\A id \in DOMAIN visited_ids : visited_ids[id] \in 0..depth)
  /\ [][\A id \in DOMAIN visited_ids :
          /\ id \in DOMAIN visited_ids'
          /\ visited_ids'[id] <= visited_ids[id]]_vars
  /\ []((pc = "trav_done") =>
          \E seed \in SeedAnswers :
            \A id \in DOMAIN visited_ids :
              /\ id \in Reach(Range(seed), depth)
              /\ visited_ids[id] = Distance(Range(seed), id))

\* C17 witness: the search has ended with an id recorded at depth 1 that was
\* also looked up to be visited at depth 2.
C17_Witness ==
  /\ pc = "trav_done"
  /\ \E id \in DOMAIN visited_ids :
       /\ visited_ids[id] = 1
       /\ BagIn(IdsAndLinkToTagsById(id, 2), cq_issued)
       /\ BagIn(IdsAndLinkToTagsById(id, 1), cq_issued)

\* C18: callbacks running one at a time, in whatever order they complete, the
\* search returns every node that is within depth tag hops of a row of the seed
\* answer.
C18_EveryNodeWithinDepthReturned ==
  (pc = "trav_done") =>
    /\ result.kind = "nodes"
    /\ \E seed \in SeedAnswers :
         Reach(Range(seed), depth) \subseteq Range(ReturnedIds)

\* C18 witness: the search returned a node two hops from the seed; the targets
\* query that led to it also answered an id already recorded at a lower depth,
\* which was pruned, no lookup for depth 2 being scheduled for it.
C18_Witness ==
  /\ pc = "trav_done"
  /\ depth = 2
  /\ result.kind = "nodes"
  /\ \E id \in Range(ReturnedIds) :
       /\ visited_ids[id] = 2
       /\ \E tag \in TagPairs :
            /\ BagIn(TargetsByKindAndValue(tag, 1), cq_issued)
            /\ id \in TargetIdsOf(tag)
            /\ \E other \in TargetIdsOf(tag) :
                 /\ visited_ids[other] <= 1
                 /\ ~BagIn(IdsAndLinkToTagsById(other, 2), cq_issued)

\* How many times the statement s is in the bag.
Copies(s, bag) == IF BagIn(s, bag) THEN bag[s] ELSE 0

\* C19: when a targets query is scheduled for a tag from depth d, every targets
\* query scheduled for that tag before was scheduled from a depth above d; a
\* tag is hence queried at most once from each depth.
C19_TagQueriedOncePerDepth ==
  [][\A s \in DOMAIN cq_issued' :
       (IsTargetsQuery(s) /\ Copies(s, cq_issued') > Copies(s, cq_issued)) =>
         /\ Copies(s, cq_issued') = 1
         /\ \A r \in DOMAIN cq_issued :
              (IsTargetsQuery(r) /\ r.tag = s.tag) => s.d < r.d]_vars

\* C20: the search returns the ids in the order in which they were inserted
\* into visited_ids, and in that order the depth finally recorded for the ids
\* never decreases, the ids of the seed answer coming first.
C20_ReturnedBreadthFirst ==
  (pc = "trav_done") =>
    /\ result.kind = "nodes"
    /\ ReturnedIds = visited_keys
    /\ \A i, j \in DOMAIN ReturnedIds :
         i < j => visited_ids[ReturnedIds[i]] <= visited_ids[ReturnedIds[j]]

\* ------------------------------------------------- add_nodes, any direction: claims

\* The links whose direction is one of in, out, bidir.
Recognized(links) == {l \in links : l.direction \in Directions}

\* C22: a link whose direction is none of in, out, bidir is dropped by
\* add_nodes: the target inserts scheduled for a node are those of its in and
\* bidir links, the link_to_tags of its passage row are those of its out and
\* bidir links, whatever other links it has, and add_nodes raises only when the
\* backend fails a statement.
C22_UnrecognizedDirectionDropped ==
  /\ (pc = "returned") =>
       \A i \in Written :
         LET known == Recognized(nodes[i].links)
         IN  /\ {s.tag : s \in {r \in DOMAIN cq_issued :
                                   r.q = "insert_tag" /\ r.id = node_ids[i]}}
                  = {<<l.kind, l.tag>> : l \in InLinks(known)}
             /\ \A t \in {<<l.kind, l.tag>> : l \in InLinks(known)} :
                  <<t[1], t[2], node_ids[i]>> \in DOMAIN targets
             /\ node_ids[i] \in DOMAIN passages
             /\ passages[node_ids[i]].link_to_tags
                  = {<<l.kind, l.tag>> : l \in OutLinks(known)}
  /\ (pc = "raised") => result = [kind |-> "error", error |-> "backend"]

\* C22 witness: add_nodes returned for a node with a link of unrecognized
\* direction and a bidir link of the other kind; the bidir link has its targets
\* row and its link_to_tags entry, the other link has neither.
C22_Witness ==
  /\ pc = "returned"
  /\ \E l, m \in nodes[1].links :
       /\ l.direction = Unrecognized
       /\ m.direction = "bidir"
       /\ m.kind # l.kind
       /\ <<m.kind, m.tag, node_ids[1]>> \in DOMAIN targets
       /\ <<l.kind, l.tag, node_ids[1]>> \notin DOMAIN targets
       /\ passages[node_ids[1]].link_to_tags = {<<m.kind, m.tag>>}

\* ------------------------------------------- mmr_traversal_search: more claims

\* C23: every id the helper holds as candidate or has selected has an entry in
\* depths, so that line 439 never raises; an id of the initial fetch has depth
\* 0 throughout, every other id has a depth from 1 to depth - 1, and no entry is
\* removed or raised.
C23_DepthsOfCandidates ==
  /\ [](pc # "mmr_raised")
  /\ [](MmrRunning =>
          /\ CandidateIds(helper) \cup Range(helper.selected) \subseteq DOMAIN depths
          /\ \A id \in DOMAIN depths :
               /\ id \in fetched => depths[id] = 0
               /\ id \notin fetched => 1 <= depths[id] /\ depths[id] < depth)
  /\ [][MmrRunning =>
          \A id \in DOMAIN depths :
            id \in DOMAIN depths' /\ depths'[id] <= depths[id]]_vars

\* C23 witness: the search ended with an id at depth 1 that the expansion of a
\* node of depth 1 had discovered first, at depth 2, before the expansion of a
\* node of depth 0 reached it; an id of the initial fetch that an expansion
\* returned is still at depth 0, and an id not fetched was selected.
C23_Witness ==
  /\ pc = "mmr_done"
  /\ \E id \in DOMAIN depths :
       /\ id \notin fetched
       /\ depths[id] = 1
       /\ \E b, d \in expanded :
            /\ b[2] = 1 /\ d[2] = 0 /\ b[3] < d[3]
            /\ Hop(b[1], id) /\ Hop(d[1], id)
            /\ \A e \in expanded : e[3] < b[3] => ~Hop(e[1], id)
  /\ \E id \in fetched : \E e \in expanded : Hop(e[1], id) /\ depths[id] = 0
  /\ Range(helper.selected) \ fetched # {}

\* ------------------------------------------------------------ _get_adjacent: claims

IsTargetsEmbeddingsQuery(s) ==
  s.q = "query_targets_embeddings_by_kind_and_tag_and_embedding"

\* The tags of the sources whose lookup was scheduled.
SourceTags ==
  UNION {passages[s.id].link_to_tags :
           s \in {r \in DOMAIN cq_issued : r.q = "query_source_tags_by_id"}}

TargetIdsInOrder == [i \in DOMAIN adj_targets |-> adj_targets[i].target_content_id]

\* C24: _get_adjacent returns every target id once; the targets only grow at
\* their end, so an entry is never replaced or moved; the setdefault of a row
\* leaves its id among the targets, with the embedding of that row when the id
\* was not there before; and the edges returned are the targets in insertion
\* order, their ids being the ids of the rows the targets queries answered.
C24_FirstObservationKept ==
  /\ [](Injective(TargetIdsInOrder))
  /\ [][(pc = "adj_scope" /\ pc' = "adj_scope") =>
          /\ Len(adj_targets') \in {Len(adj_targets), Len(adj_targets) + 1}
          /\ SubSeq(adj_targets', 1, Len(adj_targets)) = adj_targets
          /\ \A c \in DOMAIN cq_callbacks :
               (c.cb = "add_targets" /\ Copies(c, cq_callbacks') < Copies(c, cq_callbacks))
                 => LET id == Head(c.rows)
                        row == [target_content_id |-> id,
                                target_text_embedding |->
                                  targets[<<c.tag[1], c.tag[2], id>>]]
                    IN  IF id \in Range(TargetIdsInOrder)
                        THEN adj_targets' = adj_targets
                        ELSE adj_targets' = Append(adj_targets, row)]_vars
  /\ []((pc = "adj_done") =>
          /\ result.edges = adj_targets
          /\ Range(TargetIdsInOrder)
               = UNION {Range(ann_memo[s.tag]) :
                          s \in {r \in DOMAIN cq_issued : IsTargetsEmbeddingsQuery(r)}})

\* C24 witness: _get_adjacent returned two edges; the id of the first was
\* answered by the queries of two tags, whose rows have different embeddings
\* for it, and the second id was answered by one of these queries only.
C24_Witness ==
  /\ pc = "adj_done"
  /\ Len(result.edges) = 2
  /\ \E t, u \in visited_tags :
       LET id == result.edges[1].target_content_id
       IN  /\ t # u
           /\ t \in DOMAIN ann_memo /\ u \in DOMAIN ann_memo
           /\ id \in Range(ann_memo[t]) \cap Range(ann_memo[u])
           /\ targets[<<t[1], t[2], id>>] # targets[<<u[1], u[2], id>>]
           /\ result.edges[2].target_content_id
                \in Range(ann_memo[u]) \ Range(ann_memo[t])

====
